---- MODULE Spec2Model ----
(***************************************************************************)
(* Model of the reading-time tracker (ReadingTracker) and of the           *)
(* persistent reading store (ReadingStore) of super-epub.                  *)
(*                                                                         *)
(* Paths are sequences of one-character strings, so that prefix tests and  *)
(* slices are computed as the code computes them; the empty sequence is    *)
(* the falsy path (null or "").  Numbers of a progress entry are           *)
(* non-negative integers, with Null and Undefined below them.              *)
(***************************************************************************)
EXTENDS Integers, Sequences, FiniteSets, TLC

VARIABLES
    now,                \* Date.now()
    advances,           \* number of clock advances so far
    filePath,           \* what options.getFilePath() returns (NoPath = null)
    timers,             \* interval timers live in the window
    readTimer,          \* ReadingTracker.readTimer (0 = null)
    readTimePendingMs,  \* ReadingTracker.readTimePendingMs
    lastTickAt,         \* ReadingTracker.lastTickAt
    isActiveLeaf,       \* ReadingTracker.isActiveLeaf
    lastActivityAt,     \* ReadingTracker.lastActivityAt
    activityEver,       \* recordActivity() has been called at least once
    onFlushCalls,       \* the options.onFlush calls made by the last operation
    op,                 \* the last tracker operation
    settings,           \* ReadingStore.data.settings
    progress,           \* ReadingStore.data.progress, in property order
    saves,              \* the options.scheduleSave calls made by the last operation
    storeOps,           \* number of store operations so far
    sop,                \* the last store operation
    saveTimer,          \* EpubPlugin.saveTimer (0 = null)
    timeouts,           \* timeouts pending in the window: [id, due]
    timerSeq,           \* the last timeout id window.setTimeout returned
    saveData,           \* the last Plugin.saveData call, and their number
    saveHist,           \* the save requests so far
    notes,              \* the notes of the vault: mtime, links, indexed links
    mclock,             \* the last modification time handed out
    mgr,                \* BacklinkManager: lastBookPath, lastCacheKey, cachedResults
    hostApi,            \* metadataCache.getBacklinksForFile exists
    arraySeq,           \* the number of result arrays created so far
    blOps,              \* number of resolver and vault steps so far
    hop,                \* the last resolver or vault step
    codec,              \* a string, its token, and what the token decodes to
    parse,              \* a link text and what parseEpubCfi64Link makes of it
    viewOpen,           \* the view was not unloaded
    fileContent,        \* the view holds the bytes of its book
    viewIsActiveLeaf,   \* the view's isActiveLeaf
    refreshTimer,       \* the view's refreshTimer (0 = null)
    refreshTimeouts,    \* the pending timeouts of scheduleBacklinkRefresh
    refreshSeq,         \* the number of timeouts it created so far
    backlinksDirty,     \* the view's backlinksDirty
    highlightsKey,      \* the view's highlightsKey
    mounted,            \* the reader is rendered in contentEl
    viewOps,            \* number of view steps so far
    vop,                \* the last view step
    afterClose          \* what ran for the view since it was unloaded

trackerVars == <<now, advances, filePath, timers, readTimer, readTimePendingMs,
                 lastTickAt, isActiveLeaf, lastActivityAt, activityEver,
                 onFlushCalls, op>>

storeVars == <<settings, progress, saves, storeOps, sop>>

saveVars == <<saveTimer, timeouts, timerSeq, saveData, saveHist>>

backlinkVars == <<notes, mclock, mgr, hostApi, arraySeq, blOps, hop>>

codecVars == <<codec, parse>>

viewVars == <<viewOpen, fileContent, viewIsActiveLeaf, refreshTimer,
              refreshTimeouts, refreshSeq, backlinksDirty, highlightsKey,
              mounted, viewOps, vop, afterClose>>

vars == <<trackerVars, storeVars, saveVars, backlinkVars, codecVars,
          viewVars>>

----------------------------------------------------------------------------
(* Bounds *)

Epoch == 100000
MaxAdvances == 5
MaxTimers == 2

ClockSteps == {2000, 50000}

NoPath == <<>>
BookA == <<"F", "/", "a">>
BookB == <<"M", "/", "a">>
OpenFiles == {NoPath, BookA, BookB}

Min(a, b) == IF a <= b THEN a ELSE b

----------------------------------------------------------------------------
(* ReadingTracker *)

tickIntervalMs == 1000
flushThresholdMs == 5000
maxTickMs == 5000
activityTimeoutMs == 60000

\* The tracker object together with what it reads from its environment.
TrackerState ==
    [ now |-> now, path |-> filePath, timers |-> timers,
      readTimer |-> readTimer, readTimePendingMs |-> readTimePendingMs,
      lastTickAt |-> lastTickAt, isActiveLeaf |-> isActiveLeaf,
      lastActivityAt |-> lastActivityAt, calls |-> <<>> ]

\* flush() that does not look at the file path.
flush_anyPath(s) ==
    IF s.readTimePendingMs <= 0 THEN s
    ELSE [s EXCEPT !.calls = Append(@, <<s.readTimePendingMs, s.path>>),
                   !.readTimePendingMs = 0]

flush(s) ==
    IF s.path = NoPath THEN s
    ELSE IF s.readTimePendingMs <= 0 THEN s
    ELSE [s EXCEPT !.calls = Append(@, <<s.readTimePendingMs, s.path>>),
                   !.readTimePendingMs = 0]

\* setActiveLeaf() that leaves lastTickAt alone on a transition.
setActiveLeaf_keepsTick(s, isActive) ==
    IF s.isActiveLeaf # isActive
    THEN LET t == [s EXCEPT !.isActiveLeaf = isActive]
         IN IF ~isActive THEN flush(t) ELSE t
    ELSE s

\* setActiveLeaf() that does not flush on the transition to inactive.
setActiveLeaf_noFlush(s, isActive) ==
    IF s.isActiveLeaf # isActive
    THEN [s EXCEPT !.isActiveLeaf = isActive, !.lastTickAt = s.now]
    ELSE s

setActiveLeaf(s, isActive) ==
    IF s.isActiveLeaf # isActive
    THEN LET s1 == [s EXCEPT !.isActiveLeaf = isActive, !.lastTickAt = s.now]
         IN IF ~isActive THEN flush(s1) ELSE s1
    ELSE s

\* window.setInterval returns a handle that is not in use.
setInterval(s) == CHOOSE i \in 1..MaxTimers :
                     /\ i \notin s.timers
                     /\ \A j \in 1..MaxTimers : j \notin s.timers => i <= j

\* start() that does not cancel the previous interval.
start_noClear(s) ==
    LET s1 == [s EXCEPT !.lastTickAt = s.now]
        id == setInterval(s1)
    IN [s1 EXCEPT !.timers = @ \cup {id}, !.readTimer = id]

start(s) ==
    LET s1 == [s EXCEPT !.lastTickAt = s.now]
        s2 == IF s1.readTimer # 0
              THEN [s1 EXCEPT !.timers = @ \ {s1.readTimer}]
              ELSE s1
        id == setInterval(s2)
    IN [s2 EXCEPT !.timers = @ \cup {id}, !.readTimer = id]

\* stop() that zeroes the pending time without flushing it.
stop_noFlush(s) ==
    LET s1 == IF s.readTimer # 0
              THEN [s EXCEPT !.timers = @ \ {s.readTimer}, !.readTimer = 0]
              ELSE s
    IN [s1 EXCEPT !.readTimePendingMs = 0, !.lastTickAt = 0]

stop(s) ==
    LET s1 == IF s.readTimer # 0
              THEN [s EXCEPT !.timers = @ \ {s.readTimer}, !.readTimer = 0]
              ELSE s
        s2 == flush(s1)
    IN [s2 EXCEPT !.readTimePendingMs = 0, !.lastTickAt = 0]

recordActivity(s) == [s EXCEPT !.lastActivityAt = s.now]

\* tick() that applies the idle test only once an activity was recorded.
tick_idleOnlyAfterActivity(s) ==
    IF s.path = NoPath THEN s
    ELSE LET last == IF s.lastTickAt # 0 THEN s.lastTickAt ELSE s.now
             s1 == [s EXCEPT !.lastTickAt = s.now]
             delta == s.now - last
         IN IF ~s1.isActiveLeaf THEN s1
            ELSE IF s1.lastActivityAt # 0
                    /\ s1.now - s1.lastActivityAt > activityTimeoutMs THEN s1
            ELSE IF delta <= 0 THEN s1
            ELSE LET s2 == [s1 EXCEPT !.readTimePendingMs =
                                         @ + Min(delta, maxTickMs)]
                 IN IF s2.readTimePendingMs >= flushThresholdMs
                    THEN flush(s2)
                    ELSE s2

\* tick() that adds the whole gap.
tick_noCap(s) ==
    IF s.path = NoPath THEN s
    ELSE LET last == IF s.lastTickAt # 0 THEN s.lastTickAt ELSE s.now
             s1 == [s EXCEPT !.lastTickAt = s.now]
             delta == s.now - last
         IN IF ~s1.isActiveLeaf THEN s1
            ELSE IF s1.lastActivityAt = 0 THEN s1
            ELSE IF s1.now - s1.lastActivityAt > activityTimeoutMs THEN s1
            ELSE IF delta <= 0 THEN s1
            ELSE LET s2 == [s1 EXCEPT !.readTimePendingMs = @ + delta]
                 IN IF s2.readTimePendingMs >= flushThresholdMs
                    THEN flush(s2)
                    ELSE s2

tick(s) ==
    IF s.path = NoPath THEN s
    ELSE LET last == IF s.lastTickAt # 0 THEN s.lastTickAt ELSE s.now
             s1 == [s EXCEPT !.lastTickAt = s.now]
             delta == s.now - last
         IN IF ~s1.isActiveLeaf THEN s1
            ELSE IF s1.lastActivityAt = 0 THEN s1
            ELSE IF s1.now - s1.lastActivityAt > activityTimeoutMs THEN s1
            ELSE IF delta <= 0 THEN s1
            ELSE LET s2 == [s1 EXCEPT !.readTimePendingMs =
                                         @ + Min(delta, maxTickMs)]
                 IN IF s2.readTimePendingMs >= flushThresholdMs
                    THEN flush(s2)
                    ELSE s2

\* Commit the result r of an operation to the state.
Commit(r, name, active, timer) ==
    /\ timers' = r.timers
    /\ readTimer' = r.readTimer
    /\ readTimePendingMs' = r.readTimePendingMs
    /\ lastTickAt' = r.lastTickAt
    /\ isActiveLeaf' = r.isActiveLeaf
    /\ lastActivityAt' = r.lastActivityAt
    /\ onFlushCalls' = r.calls
    /\ op' = [ name |-> name, active |-> active, timer |-> timer,
               before |-> readTimePendingMs,
               gap |-> IF lastTickAt # 0 THEN now - lastTickAt ELSE 0,
               leafAt |-> IF r.isActiveLeaf = isActiveLeaf THEN op.leafAt
                          ELSE IF r.isActiveLeaf THEN now ELSE 0 ]
    /\ UNCHANGED <<now, advances, filePath>>
    /\ UNCHANGED <<storeVars, saveVars, backlinkVars, codecVars, viewVars>>

SetActiveLeaf(isActive) ==
    /\ Commit(setActiveLeaf(TrackerState, isActive), "setActiveLeaf", isActive, 0)
    /\ UNCHANGED activityEver

Start ==
    /\ \E i \in 1..MaxTimers : i \notin timers
    /\ Commit(start(TrackerState), "start", FALSE, readTimer)
    /\ UNCHANGED activityEver

Stop ==
    /\ Commit(stop(TrackerState), "stop", FALSE, readTimer)
    /\ UNCHANGED activityEver

RecordActivity ==
    /\ Commit(recordActivity(TrackerState), "recordActivity", FALSE, 0)
    /\ activityEver' = TRUE

Flush ==
    /\ Commit(flush(TrackerState), "flush", FALSE, 0)
    /\ UNCHANGED activityEver

\* A live interval timer fires and runs its callback, () => this.tick().
Tick(id) ==
    /\ id \in timers
    /\ Commit(tick(TrackerState), "tick", FALSE, id)
    /\ UNCHANGED activityEver

\* Time passes.
Advance(d) ==
    /\ advances < MaxAdvances
    /\ now' = now + d
    /\ advances' = advances + 1
    /\ onFlushCalls' = <<>>
    /\ op' = [ name |-> "advance", active |-> FALSE, timer |-> 0,
               before |-> readTimePendingMs, gap |-> 0,
               leafAt |-> op.leafAt ]
    /\ UNCHANGED <<filePath, timers, readTimer, readTimePendingMs, lastTickAt,
                   isActiveLeaf, lastActivityAt, activityEver>>
    /\ UNCHANGED <<storeVars, saveVars, backlinkVars, codecVars, viewVars>>

\* The view's file changes (a book is loaded or unloaded).
SetFile(p) ==
    /\ p # filePath
    /\ filePath' = p
    /\ onFlushCalls' = <<>>
    /\ op' = [ name |-> "setFile", active |-> FALSE, timer |-> 0,
               before |-> readTimePendingMs, gap |-> 0,
               leafAt |-> op.leafAt ]
    /\ UNCHANGED <<now, advances, timers, readTimer, readTimePendingMs,
                   lastTickAt, isActiveLeaf, lastActivityAt, activityEver>>
    /\ UNCHANGED <<storeVars, saveVars, backlinkVars, codecVars, viewVars>>

TrackerInit ==
    /\ now = Epoch
    /\ advances = 0
    /\ filePath = NoPath
    /\ timers = {}
    /\ readTimer = 0
    /\ readTimePendingMs = 0
    /\ lastTickAt = 0
    /\ isActiveLeaf = FALSE
    /\ lastActivityAt = 0
    /\ activityEver = FALSE
    /\ onFlushCalls = <<>>
    /\ op = [ name |-> "init", active |-> FALSE, timer |-> 0,
              before |-> 0, gap |-> 0, leafAt |-> 0 ]

TrackerNext ==
    \/ \E a \in BOOLEAN : SetActiveLeaf(a)
    \/ Start
    \/ Stop
    \/ RecordActivity
    \/ Flush
    \/ \E id \in 1..MaxTimers : Tick(id)
    \/ \E d \in ClockSteps : Advance(d)
    \/ \E p \in OpenFiles : SetFile(p)

----------------------------------------------------------------------------
(* Paths and normalizeProgressKey *)

IsSeparator(c) == c \in {"/", "\\"}

\* path.replace(/([\\/])+/g, "/")
RECURSIVE collapseSeparators(_)
collapseSeparators(p) ==
    IF p = <<>> THEN <<>>
    ELSE IF IsSeparator(Head(p))
         THEN IF Tail(p) # <<>> /\ IsSeparator(Head(Tail(p)))
              THEN collapseSeparators(Tail(p))
              ELSE <<"/">> \o collapseSeparators(Tail(p))
         ELSE <<Head(p)>> \o collapseSeparators(Tail(p))

\* path.replace(/(^\/+|\/+$)/g, "") on a path whose separators are collapsed
stripSlashes(p) ==
    LET a == IF p # <<>> /\ Head(p) = "/" THEN Tail(p) ELSE p
    IN IF a # <<>> /\ a[Len(a)] = "/" THEN SubSeq(a, 1, Len(a) - 1) ELSE a

\* The host's normalizePath: separators collapsed to one "/", leading and
\* trailing "/" removed, the empty path becomes "/".
normalizePath(p) ==
    LET q == stripSlashes(collapseSeparators(p))
    IN IF q = <<>> THEN <<"/">> ELSE q

normalizeProgressKey(bookPath) == normalizePath(bookPath)

startsWith(k, prefix) ==
    Len(k) >= Len(prefix) /\ SubSeq(k, 1, Len(prefix)) = prefix

endsWith(k, c) == k # <<>> /\ k[Len(k)] = c

slice(k, n) == SubSeq(k, n + 1, Len(k))

----------------------------------------------------------------------------
(* ReadingStore *)

Null == -1
Undefined == -2

DEFAULT_SETTINGS ==
    [ scrolledView |-> "false", fontSizePercent |-> "100",
      highlightColor |-> "#ffd700", highlightOpacity |-> "35",
      followObsidianTheme |-> "true", followObsidianFont |-> "true",
      notePath |-> "/", useSameFolder |-> "true", tags |-> "notes/booknotes" ]

\* { ...a, ...b }
Spread(a, b) ==
    [k \in DOMAIN a \cup DOMAIN b |-> IF k \in DOMAIN b THEN b[k] ELSE a[k]]

\* data.progress is an object: an association list in property order.
HasKey(m, k) == \E i \in DOMAIN m : m[i].k = k
Lookup(m, k) == m[CHOOSE i \in DOMAIN m : m[i].k = k].v
Put(m, k, v) ==
    IF HasKey(m, k)
    THEN [i \in DOMAIN m |-> IF m[i].k = k THEN [k |-> k, v |-> v] ELSE m[i]]
    ELSE Append(m, [k |-> k, v |-> v])
Delete(m, k) == SelectSeq(m, LAMBDA e : e.k # k)
KeysOf(m) == {m[i].k : i \in DOMAIN m}

\* The store object together with what it reads from its environment.
StoreState ==
    [ now |-> now, settings |-> settings, progress |-> progress, saves |-> 0 ]

scheduleSave(st) == [st EXCEPT !.saves = @ + 1]

\* load() that starts every document with an empty progress map.
load_dropsProgress(st, raw) ==
    IF raw.object /\ raw.version = "1"
    THEN [st EXCEPT
            !.settings = Spread(DEFAULT_SETTINGS,
                                IF raw.hasSettings THEN raw.settings ELSE <<>>),
            !.progress = <<>>]
    ELSE LET legacySettings == IF raw.object THEN raw.props ELSE <<>>
         IN [st EXCEPT !.settings = Spread(DEFAULT_SETTINGS, legacySettings),
                       !.progress = <<>>]

\* load() that takes the settings of the input without the defaults.
load_noDefaults(st, raw) ==
    IF raw.object /\ raw.version = "1"
    THEN [st EXCEPT
            !.settings = IF raw.hasSettings THEN raw.settings ELSE <<>>,
            !.progress = IF raw.hasProgress THEN raw.progress ELSE <<>>]
    ELSE LET legacySettings == IF raw.object THEN raw.props ELSE <<>>
         IN [st EXCEPT !.settings = legacySettings,
                       !.progress = <<>>]

load(st, raw) ==
    IF raw.object /\ raw.version = "1"
    THEN [st EXCEPT
            !.settings = Spread(DEFAULT_SETTINGS,
                                IF raw.hasSettings THEN raw.settings ELSE <<>>),
            !.progress = IF raw.hasProgress THEN raw.progress ELSE <<>>]
    ELSE LET legacySettings == IF raw.object THEN raw.props ELSE <<>>
         IN [st EXCEPT !.settings = Spread(DEFAULT_SETTINGS, legacySettings),
                       !.progress = <<>>]

\* The document exportData() returns, in the shape load() reads.
exportData(st) ==
    [ object |-> TRUE, version |-> "1", props |-> <<>>,
      hasSettings |-> TRUE, settings |-> st.settings,
      hasProgress |-> TRUE, progress |-> st.progress ]

getSettings(st) == st.settings

setSettings(st, newSettings, signal) ==
    LET s1 == [st EXCEPT !.settings = newSettings]
    IN IF signal THEN scheduleSave(s1) ELSE s1

\* x ?? d
Coalesce(x, d) == IF x \in {Null, Undefined} THEN d ELSE x

getProgress(st, bookPath) ==
    LET key == normalizeProgressKey(bookPath)
    IN IF HasKey(st.progress, key)
       THEN Coalesce(Lookup(st.progress, key).location, Null)
       ELSE Null

ensureBookProgress(st, bookPath) ==
    LET key == normalizeProgressKey(bookPath)
    IN IF ~HasKey(st.progress, key)
       THEN [st EXCEPT !.progress =
               Put(@, key, [ location |-> 0, updatedAt |-> 0,
                             totalReadTimeMs |-> 0, sessionCount |-> 0,
                             lastOpenedAt |-> Null, lastReadAt |-> Null ])]
       ELSE LET e == Lookup(st.progress, key)
                e1 == [e EXCEPT
                        !.totalReadTimeMs =
                            IF @ \in {Null, Undefined} THEN 0 ELSE @,
                        !.sessionCount =
                            IF @ \in {Null, Undefined} THEN 0 ELSE @,
                        !.lastOpenedAt = IF @ = Undefined THEN Null ELSE @,
                        !.lastReadAt = IF @ = Undefined THEN Null ELSE @]
            IN [st EXCEPT !.progress = Put(@, key, e1)]

setProgress(st, bookPath, location) ==
    LET key == normalizeProgressKey(bookPath)
        s1 == ensureBookProgress(st, bookPath)
        e == Lookup(s1.progress, key)
    IN scheduleSave([s1 EXCEPT !.progress =
          Put(@, key, [e EXCEPT !.location = location, !.updatedAt = st.now])])

getReadingStats(st, bookPath) == ensureBookProgress(st, bookPath)

\* The statistics of an entry, as getReadingStats and listReadingStats
\* report them.
StatsOf(entry) ==
    [ totalReadTimeMs |-> Coalesce(entry.totalReadTimeMs, 0),
      sessionCount |-> Coalesce(entry.sessionCount, 0),
      lastOpenedAt |-> Coalesce(entry.lastOpenedAt, Null),
      lastReadAt |-> Coalesce(entry.lastReadAt, Null) ]

\* What getReadingStats(bookPath) returns.
getReadingStatsResult(st, bookPath) ==
    StatsOf(Lookup(ensureBookProgress(st, bookPath).progress,
                   normalizeProgressKey(bookPath)))

\* The filter of listReadingStats without the updatedAt test.
hasActivity_statsOnly(entry) ==
    \/ Coalesce(entry.totalReadTimeMs, 0) > 0
    \/ Coalesce(entry.sessionCount, 0) > 0
    \/ entry.lastOpenedAt \notin {Null, Undefined}
    \/ entry.lastReadAt \notin {Null, Undefined}

\* The filter that counts sessions only from the second one on.
hasActivity_manySessions(entry) ==
    \/ Coalesce(entry.totalReadTimeMs, 0) > 0
    \/ Coalesce(entry.sessionCount, 0) > 1
    \/ Coalesce(entry.updatedAt, 0) > 0

hasActivity(entry) ==
    \/ Coalesce(entry.totalReadTimeMs, 0) > 0
    \/ Coalesce(entry.sessionCount, 0) > 0
    \/ entry.lastOpenedAt \notin {Null, Undefined}
    \/ entry.lastReadAt \notin {Null, Undefined}
    \/ Coalesce(entry.updatedAt, 0) > 0

RECURSIVE listFrom(_, _)
listFrom(entries, i) ==
    IF i > Len(entries) THEN <<>>
    ELSE IF hasActivity(entries[i].v)
         THEN << [path |-> entries[i].k, stats |-> StatsOf(entries[i].v)] >>
              \o listFrom(entries, i + 1)
         ELSE listFrom(entries, i + 1)

listReadingStats(st) == listFrom(st.progress, 1)

\* recordReadingSession() that leaves out the save request.
recordReadingSession_noSave(st, bookPath) ==
    LET key == normalizeProgressKey(bookPath)
        s1 == ensureBookProgress(st, bookPath)
        e == Lookup(s1.progress, key)
    IN [s1 EXCEPT !.progress =
          Put(@, key, [e EXCEPT !.sessionCount = @ + 1,
                                !.lastOpenedAt = st.now])]

recordReadingSession(st, bookPath) ==
    LET key == normalizeProgressKey(bookPath)
        s1 == ensureBookProgress(st, bookPath)
        e == Lookup(s1.progress, key)
    IN scheduleSave([s1 EXCEPT !.progress =
          Put(@, key, [e EXCEPT !.sessionCount = @ + 1,
                                !.lastOpenedAt = st.now])])

\* A number passed as deltaMs: finite, NaN or an infinity.
IsFinite(d) == d.kind = "finite"

\* addReadingTime() that accepts any finite delta.
addReadingTime_noSignCheck(st, bookPath, deltaMs) ==
    IF ~IsFinite(deltaMs) THEN st
    ELSE LET key == normalizeProgressKey(bookPath)
             s1 == ensureBookProgress(st, bookPath)
             e == Lookup(s1.progress, key)
         IN scheduleSave([s1 EXCEPT !.progress =
               Put(@, key, [e EXCEPT !.totalReadTimeMs = @ + deltaMs.v,
                                     !.lastReadAt = st.now])])

addReadingTime(st, bookPath, deltaMs) ==
    IF ~IsFinite(deltaMs) \/ deltaMs.v <= 0 THEN st
    ELSE LET key == normalizeProgressKey(bookPath)
             s1 == ensureBookProgress(st, bookPath)
             e == Lookup(s1.progress, key)
         IN scheduleSave([s1 EXCEPT !.progress =
               Put(@, key, [e EXCEPT !.totalReadTimeMs = @ + deltaMs.v,
                                     !.lastReadAt = st.now])])

\* The loop that leaves the source keys in place.
RECURSIVE renameLoop_noDelete(_, _, _, _, _)
renameLoop_noDelete(entries, i, oldPrefix, newPrefix, acc) ==
    IF i > Len(entries) THEN acc
    ELSE LET k == entries[i].k
             v == entries[i].v
         IN IF ~startsWith(k, oldPrefix)
            THEN renameLoop_noDelete(entries, i + 1, oldPrefix, newPrefix, acc)
            ELSE LET moved == newPrefix \o slice(k, Len(oldPrefix))
                     n1 == IF ~HasKey(acc.next, moved)
                           THEN Put(acc.next, moved, v)
                           ELSE acc.next
                 IN renameLoop_noDelete(entries, i + 1, oldPrefix, newPrefix,
                                        [next |-> n1, changed |-> TRUE])

\* The loop that lets the source overwrite an existing destination.
RECURSIVE renameLoop_overwrite(_, _, _, _, _)
renameLoop_overwrite(entries, i, oldPrefix, newPrefix, acc) ==
    IF i > Len(entries) THEN acc
    ELSE LET k == entries[i].k
             v == entries[i].v
         IN IF ~startsWith(k, oldPrefix)
            THEN renameLoop_overwrite(entries, i + 1, oldPrefix, newPrefix, acc)
            ELSE LET moved == newPrefix \o slice(k, Len(oldPrefix))
                     n1 == Put(acc.next, moved, v)
                 IN renameLoop_overwrite(entries, i + 1, oldPrefix, newPrefix,
                               [next |-> Delete(n1, k), changed |-> TRUE])

\* The loop of the folder form, from the i-th property of the progress
\* object on; acc is [next, changed].
RECURSIVE renameLoop(_, _, _, _, _)
renameLoop(entries, i, oldPrefix, newPrefix, acc) ==
    IF i > Len(entries) THEN acc
    ELSE LET k == entries[i].k
             v == entries[i].v
         IN IF ~startsWith(k, oldPrefix)
            THEN renameLoop(entries, i + 1, oldPrefix, newPrefix, acc)
            ELSE LET moved == newPrefix \o slice(k, Len(oldPrefix))
                     n1 == IF ~HasKey(acc.next, moved)
                           THEN Put(acc.next, moved, v)
                           ELSE acc.next
                 IN renameLoop(entries, i + 1, oldPrefix, newPrefix,
                               [next |-> Delete(n1, k), changed |-> TRUE])

\* renameProgress() whose file form signals a save whether or not an entry
\* existed at the old key.
renameProgress_alwaysSaves(st, oldPath, newPath, isFolder) ==
    LET oldKey == normalizeProgressKey(oldPath)
        newKey == normalizeProgressKey(newPath)
    IN IF oldKey = <<>> \/ newKey = <<>> THEN st
       ELSE IF isFolder
       THEN LET oldPrefix == IF endsWith(oldKey, "/") THEN oldKey
                             ELSE oldKey \o <<"/">>
                newPrefix == IF endsWith(newKey, "/") THEN newKey
                             ELSE newKey \o <<"/">>
                r == renameLoop(st.progress, 1, oldPrefix, newPrefix,
                                [next |-> st.progress, changed |-> FALSE])
            IN IF r.changed
               THEN scheduleSave([st EXCEPT !.progress = r.next])
               ELSE st
       ELSE LET s1 == IF HasKey(st.progress, oldKey)
                         /\ ~HasKey(st.progress, newKey)
                      THEN [st EXCEPT !.progress =
                               Put(@, newKey, Lookup(st.progress, oldKey))]
                      ELSE st
            IN scheduleSave([s1 EXCEPT !.progress = Delete(@, oldKey)])

\* renameProgress() whose folder form matches the keys that start with the
\* old key, without the "/" after it.
renameProgress_barePrefix(st, oldPath, newPath, isFolder) ==
    LET oldKey == normalizeProgressKey(oldPath)
        newKey == normalizeProgressKey(newPath)
    IN IF oldKey = <<>> \/ newKey = <<>> THEN st
       ELSE IF isFolder
       THEN LET r == renameLoop(st.progress, 1, oldKey, newKey,
                                [next |-> st.progress, changed |-> FALSE])
            IN IF r.changed
               THEN scheduleSave([st EXCEPT !.progress = r.next])
               ELSE st
       ELSE LET s1 == IF HasKey(st.progress, oldKey)
                         /\ ~HasKey(st.progress, newKey)
                      THEN [st EXCEPT !.progress =
                               Put(@, newKey, Lookup(st.progress, oldKey))]
                      ELSE st
            IN IF HasKey(s1.progress, oldKey)
               THEN scheduleSave([s1 EXCEPT !.progress = Delete(@, oldKey)])
               ELSE s1

renameProgress(st, oldPath, newPath, isFolder) ==
    LET oldKey == normalizeProgressKey(oldPath)
        newKey == normalizeProgressKey(newPath)
    IN IF oldKey = <<>> \/ newKey = <<>> THEN st
       ELSE IF isFolder
       THEN LET oldPrefix == IF endsWith(oldKey, "/") THEN oldKey
                             ELSE oldKey \o <<"/">>
                newPrefix == IF endsWith(newKey, "/") THEN newKey
                             ELSE newKey \o <<"/">>
                r == renameLoop(st.progress, 1, oldPrefix, newPrefix,
                                [next |-> st.progress, changed |-> FALSE])
            IN IF r.changed
               THEN scheduleSave([st EXCEPT !.progress = r.next])
               ELSE st
       ELSE LET s1 == IF HasKey(st.progress, oldKey)
                         /\ ~HasKey(st.progress, newKey)
                      THEN [st EXCEPT !.progress =
                               Put(@, newKey, Lookup(st.progress, oldKey))]
                      ELSE st
            IN IF HasKey(s1.progress, oldKey)
               THEN scheduleSave([s1 EXCEPT !.progress = Delete(@, oldKey)])
               ELSE s1

----------------------------------------------------------------------------
(* Inputs of the store operations *)

MaxStoreOps == 3

FolderF == <<"F">>
FolderM == <<"M">>
FolderFS == <<"F", "/", "S">>
FileFA == <<"F", "/", "a">>
FileFSA == <<"F", "/", "S", "/", "a">>
FileMA == <<"M", "/", "a">>
FileF2A == <<"F", "2", "/", "a">>

\* Paths as the callers pass them; two are not in normal form.
BookPaths == {FileFA, FileMA, <<"F", "\\", "a">>}
RenamePaths == {FolderF, FolderM, FolderFS, <<"F", "/">>, FileFA, FileMA}

Locations == {7}

NoDelta == [kind |-> "none", v |-> 0]
Deltas == { [kind |-> "NaN", v |-> 0], [kind |-> "Infinity", v |-> 1],
            [kind |-> "finite", v |-> 0],
            [kind |-> "finite", v |-> -1500], [kind |-> "finite", v |-> 1500] }

EntryRead ==
    [ location |-> 3, updatedAt |-> 5000, totalReadTimeMs |-> 4000,
      sessionCount |-> 2, lastOpenedAt |-> 5000, lastReadAt |-> 6000 ]
EntryOpened ==
    [ location |-> 0, updatedAt |-> 0, totalReadTimeMs |-> 0,
      sessionCount |-> 1, lastOpenedAt |-> 8000, lastReadAt |-> Null ]
EntryOld ==
    [ location |-> 5, updatedAt |-> 9000, totalReadTimeMs |-> Undefined,
      sessionCount |-> Undefined, lastOpenedAt |-> Undefined,
      lastReadAt |-> Undefined ]

Prop(k, v) == [k |-> k, v |-> v]

\* The settings objects handed to setSettings().
SettingsInputs == { [DEFAULT_SETTINGS EXCEPT !.fontSizePercent = "140"] }

RawDoc(object, version, props, hasSettings, rawSettings, hasProgress, rawProgress) ==
    [ object |-> object, version |-> version, props |-> props,
      hasSettings |-> hasSettings, settings |-> rawSettings,
      hasProgress |-> hasProgress, progress |-> rawProgress ]

\* The documents handed to load(): null, a legacy flat settings object, and
\* version-1 documents.
RawDocs ==
    { RawDoc(FALSE, "none", <<>>, FALSE, <<>>, FALSE, <<>>),
      RawDoc(TRUE, "none", [scrolledView |-> "true", legacyOption |-> "x"],
             FALSE, <<>>, FALSE, <<>>),
      RawDoc(TRUE, "2", [version |-> "2", tags |-> "t"],
             FALSE, <<>>, FALSE, <<>>),
      RawDoc(TRUE, "1", <<>>, FALSE, <<>>, FALSE, <<>>),
      RawDoc(TRUE, "1", <<>>, TRUE, [fontSizePercent |-> "120"], TRUE,
             <<Prop(FileFA, EntryRead), Prop(FileFSA, EntryOpened)>>),
      RawDoc(TRUE, "1", <<>>, TRUE, [fontSizePercent |-> "120"], TRUE,
             <<Prop(FileFSA, EntryOpened), Prop(FileFA, EntryRead),
               Prop(FileMA, EntryOld)>>),
      RawDoc(TRUE, "1", <<>>, FALSE, <<>>, TRUE,
             <<Prop(FileF2A, EntryOld), Prop(FileFA, EntryRead)>>) }

----------------------------------------------------------------------------
(* Store operations as steps *)

NoRaw == RawDoc(FALSE, "none", <<>>, FALSE, <<>>, FALSE, <<>>)

StoreCommitArgs(r, name, path, path2, isFolder, deltaMs, raw, signal) ==
    /\ storeOps < MaxStoreOps
    /\ storeOps' = storeOps + 1
    /\ settings' = r.settings
    /\ progress' = r.progress
    /\ saves' = r.saves
    /\ sop' = [ name |-> name, path |-> path, path2 |-> path2,
                isFolder |-> isFolder, deltaMs |-> deltaMs,
                raw |-> raw, signal |-> signal,
                before |-> progress ]
    /\ UNCHANGED <<trackerVars, saveVars, backlinkVars, codecVars, viewVars>>

StoreCommit(r, name, path, path2, isFolder, deltaMs) ==
    StoreCommitArgs(r, name, path, path2, isFolder, deltaMs, NoRaw, TRUE)

Load(raw) ==
    /\ raw \in RawDocs
    /\ StoreCommitArgs(load(StoreState, raw), "load", <<>>, <<>>, FALSE,
                       NoDelta, raw, TRUE)

SetSettings(newSettings, signal) ==
    /\ newSettings \in SettingsInputs
    /\ StoreCommitArgs(setSettings(StoreState, newSettings, signal),
                       "setSettings", <<>>, <<>>, FALSE, NoDelta, NoRaw, signal)

SetProgress(bookPath, location) ==
    /\ bookPath \in BookPaths
    /\ StoreCommit(setProgress(StoreState, bookPath, location),
                   "setProgress", bookPath, <<>>, FALSE, NoDelta)

GetReadingStats(bookPath) ==
    /\ bookPath \in BookPaths
    /\ StoreCommit(getReadingStats(StoreState, bookPath),
                   "getReadingStats", bookPath, <<>>, FALSE, NoDelta)

RecordReadingSession(bookPath) ==
    /\ bookPath \in BookPaths
    /\ StoreCommit(recordReadingSession(StoreState, bookPath),
                   "recordReadingSession", bookPath, <<>>, FALSE, NoDelta)

AddReadingTime(bookPath, deltaMs) ==
    /\ bookPath \in BookPaths
    /\ StoreCommit(addReadingTime(StoreState, bookPath, deltaMs),
                   "addReadingTime", bookPath, <<>>, FALSE, deltaMs)

RenameProgress(oldPath, newPath, isFolder) ==
    /\ oldPath \in RenamePaths /\ newPath \in RenamePaths
    /\ StoreCommit(renameProgress(StoreState, oldPath, newPath, isFolder),
                   "renameProgress", oldPath, newPath, isFolder, NoDelta)

StoreInit ==
    /\ settings = DEFAULT_SETTINGS
    /\ progress = <<>>
    /\ saves = 0
    /\ storeOps = 0
    /\ sop = [ name |-> "init", path |-> <<>>, path2 |-> <<>>,
               isFolder |-> FALSE, deltaMs |-> NoDelta,
               raw |-> NoRaw, signal |-> TRUE, before |-> <<>> ]

StoreNext ==
    \/ \E raw \in RawDocs : Load(raw)
    \/ \E ns \in SettingsInputs, f \in BOOLEAN : SetSettings(ns, f)
    \/ \E p \in BookPaths, l \in Locations : SetProgress(p, l)
    \/ \E p \in BookPaths : GetReadingStats(p)
    \/ \E p \in BookPaths : RecordReadingSession(p)
    \/ \E p \in BookPaths, d \in Deltas : AddReadingTime(p, d)
    \/ \E a, b \in RenamePaths, f \in BOOLEAN : RenameProgress(a, b, f)

----------------------------------------------------------------------------
(* EpubPlugin: the save scheduler *)

saveMinDelayMs == 500

\* How far past Epoch the clock of the scheduler runs, the number of plugin
\* calls, and the steps of its clock.
SaveHorizon == 1000
MaxPluginCalls == 3
SaveSteps == {200, 500}
SavePaths == {FileFA, FileMA}

\* The deltas the tracker's onFlush hands to addReadingTime.
FlushDeltas == { [kind |-> "finite", v |-> 5000], [kind |-> "finite", v |-> 0] }

SaveState == [ now |-> now, saveTimer |-> saveTimer, timeouts |-> timeouts,
               timerSeq |-> timerSeq ]

\* window.setTimeout(callback, delay): a new positive id.
setTimeout(ss, delay) ==
    [ss EXCEPT !.timerSeq = @ + 1,
               !.timeouts = @ \cup {[id |-> ss.timerSeq + 1,
                                     due |-> ss.now + delay]}]

clearTimeout(ss, id) ==
    [ss EXCEPT !.timeouts = {t \in @ : t.id # id}]

\* requestSave() that does not clear the pending timer.
requestSave_noClear(ss) ==
    LET s2 == setTimeout(ss, saveMinDelayMs)
    IN [s2 EXCEPT !.saveTimer = s2.timerSeq]

requestSave(ss) ==
    LET s1 == IF ss.saveTimer # 0 THEN clearTimeout(ss, ss.saveTimer) ELSE ss
        s2 == setTimeout(s1, saveMinDelayMs)
    IN [s2 EXCEPT !.saveTimer = s2.timerSeq]

\* savePluginData(): plugin.settings is the object getSettings() returned
\* in onload, so setSettings(this.settings, false) stores the store's own
\* settings object; what goes to saveData is exportData().
savePluginData(st) == exportData(setSettings(st, getSettings(st), FALSE))

\* A timeout fires at its due time, before anything else happens at that
\* instant.
NoTimerDue == \A t \in timeouts : t.due > now

\* A store call made through the plugin: scheduleSave is requestSave, and
\* each store operation calls it at most once.
PluginCommit(r) ==
    /\ saveHist.calls < MaxPluginCalls
    /\ now + saveMinDelayMs <= Epoch + SaveHorizon
    /\ NoTimerDue
    /\ settings' = r.settings
    /\ progress' = r.progress
    /\ saves' = r.saves
    /\ LET ss == IF r.saves > 0 THEN requestSave(SaveState) ELSE SaveState
       IN /\ saveTimer' = ss.saveTimer
          /\ timeouts' = ss.timeouts
          /\ timerSeq' = ss.timerSeq
    /\ saveHist' =
          IF r.saves > 0
          THEN [ calls |-> saveHist.calls + 1,
                 requests |-> saveHist.requests + 1,
                 bursts |-> IF \/ saveHist.requests = 0
                               \/ now - saveHist.lastRequestAt >= saveMinDelayMs
                            THEN saveHist.bursts + 1 ELSE saveHist.bursts,
                 burstRequests |->
                            IF \/ saveHist.requests = 0
                               \/ now - saveHist.lastRequestAt >= saveMinDelayMs
                            THEN 1 ELSE saveHist.burstRequests + 1,
                 lastRequestAt |-> now,
                 requestDoc |-> exportData(r) ]
          ELSE [saveHist EXCEPT !.calls = @ + 1]
    /\ UNCHANGED <<now, advances, filePath, timers, readTimer,
                   readTimePendingMs, lastTickAt, isActiveLeaf, lastActivityAt,
                   activityEver, onFlushCalls, op, storeOps, sop, saveData,
                   backlinkVars, codecVars, viewVars>>

PluginSetProgress(bookPath, location) ==
    /\ bookPath \in SavePaths
    /\ PluginCommit(setProgress(StoreState, bookPath, location))

PluginRecordReadingSession(bookPath) ==
    /\ bookPath \in SavePaths
    /\ PluginCommit(recordReadingSession(StoreState, bookPath))

PluginAddReadingTime(bookPath, deltaMs) ==
    /\ bookPath \in SavePaths
    /\ PluginCommit(addReadingTime(StoreState, bookPath, deltaMs))

\* The settings tab: it assigns to a field of plugin.settings and calls
\* saveSettings(), which writes at once and leaves the timer alone.
SettingsTabChange(value) ==
    /\ saveHist.calls < MaxPluginCalls
    /\ NoTimerDue
    /\ settings' = [settings EXCEPT !.fontSizePercent = value]
    /\ saveData' = [ doc |-> savePluginData([StoreState EXCEPT
                                               !.settings = settings']),
                     at |-> now, by |-> "saveSettings",
                     timerWrites |-> saveData.timerWrites,
                     writes |-> saveData.writes + 1 ]
    /\ saveHist' = [saveHist EXCEPT !.calls = @ + 1]
    /\ UNCHANGED <<trackerVars, progress, saves, storeOps, sop, saveTimer,
                   timeouts, timerSeq, backlinkVars, codecVars, viewVars>>

\* The callback of requestSave's timeout.
FireSaveTimer(id) ==
    /\ \E t \in timeouts : t.id = id /\ t.due = now
    /\ timeouts' = {t \in timeouts : t.id # id}
    /\ saveTimer' = 0
    /\ saveData' = [ doc |-> savePluginData(StoreState), at |-> now,
                     by |-> "timer",
                     timerWrites |-> saveData.timerWrites + 1,
                     writes |-> saveData.writes + 1 ]
    /\ UNCHANGED <<trackerVars, storeVars, timerSeq, saveHist, backlinkVars,
                   codecVars, viewVars>>

\* Time passes, up to the next due time and up to the horizon.
SaveAdvance(d) ==
    /\ d \in SaveSteps
    /\ NoTimerDue
    /\ now < Epoch + SaveHorizon
    /\ LET dues == {t.due : t \in timeouts} \cup {Epoch + SaveHorizon}
           next == CHOOSE x \in dues : \A y \in dues : x <= y
       IN now' = Min(now + d, next)
    /\ UNCHANGED <<advances, filePath, timers, readTimer, readTimePendingMs,
                   lastTickAt, isActiveLeaf, lastActivityAt, activityEver,
                   onFlushCalls, op, storeVars, saveVars, backlinkVars,
                   codecVars, viewVars>>

SaveInit ==
    /\ saveTimer = 0
    /\ timeouts = {}
    /\ timerSeq = 0
    /\ saveData = [ doc |-> NoRaw, at |-> 0, by |-> "none",
                    timerWrites |-> 0, writes |-> 0 ]
    /\ saveHist = [ calls |-> 0, requests |-> 0, bursts |-> 0,
                    burstRequests |-> 0, lastRequestAt |-> 0,
                    requestDoc |-> NoRaw ]

SaveTimerNext == \E id \in 1..timerSeq : FireSaveTimer(id)
SaveClockNext == \E d \in SaveSteps : SaveAdvance(d)

SaveNext ==
    \/ \E p \in SavePaths, l \in Locations : PluginSetProgress(p, l)
    \/ \E p \in SavePaths : PluginRecordReadingSession(p)
    \/ \E p \in SavePaths, d \in FlushDeltas : PluginAddReadingTime(p, d)
    \/ \E v \in {"140"} : SettingsTabChange(v)
    \/ SaveTimerNext
    \/ SaveClockNext

----------------------------------------------------------------------------
(* Strings of the link records: sequences of one-character strings *)

B64Chars ==
    << "A", "B", "C", "D", "E", "F", "G", "H", "I", "J", "K", "L", "M",
       "N", "O", "P", "Q", "R", "S", "T", "U", "V", "W", "X", "Y", "Z",
       "a", "b", "c", "d", "e", "f", "g", "h", "i", "j", "k", "l", "m",
       "n", "o", "p", "q", "r", "s", "t", "u", "v", "w", "x", "y", "z",
       "0", "1", "2", "3", "4", "5", "6", "7", "8", "9", "+", "/" >>

B64Index(c) == (CHOOSE i \in DOMAIN B64Chars : B64Chars[i] = c) - 1
IsB64Char(c) == \E i \in DOMAIN B64Chars : B64Chars[i] = c

\* encoded.replace(/-/g, "+").replace(/_/g, "/")
toBase64(encoded) ==
    [i \in DOMAIN encoded |->
        IF encoded[i] = "-" THEN "+"
        ELSE IF encoded[i] = "_" THEN "/" ELSE encoded[i]]

\* while (base64.length % 4) base64 += "="
RECURSIVE pad(_)
pad(base64) ==
    IF Len(base64) % 4 = 0 THEN base64 ELSE pad(Append(base64, "="))

\* The bytes of a run of 6-bit values, four values to three bytes; a last
\* group of two or three values gives one or two bytes and its low bits are
\* dropped.
RECURSIVE sextetsToBytes(_, _)
sextetsToBytes(v, i) ==
    LET left == Len(v) - i + 1
    IN IF left <= 1 THEN <<>>
       ELSE IF left = 2
            THEN << (v[i] * 64 + v[i + 1]) \div 16 >>
       ELSE IF left = 3
            THEN LET n == (v[i] * 4096 + v[i + 1] * 64 + v[i + 2]) \div 4
                 IN << n \div 256, n % 256 >>
       ELSE LET n == v[i] * 262144 + v[i + 1] * 4096 + v[i + 2] * 64 + v[i + 3]
            IN << n \div 65536, (n \div 256) % 256, n % 256 >>
               \o sextetsToBytes(v, i + 4)

IsAsciiWhitespace(c) == c \in {" ", "\t", "\n", "\f", "\r"}

\* atob(): the forgiving base64 decode.  ASCII whitespace is removed; then
\* one or two trailing "=" are removed when the length is a multiple of 4; a
\* length of 1 modulo 4 or a character outside the alphabet is an
\* InvalidCharacterError.
atob(input) ==
    LET data == SelectSeq(input, LAMBDA c : ~IsAsciiWhitespace(c))
        n == Len(data)
        cut == IF n % 4 = 0 /\ n >= 2 /\ data[n] = "=" /\ data[n - 1] = "="
               THEN 2
               ELSE IF n % 4 = 0 /\ n >= 1 /\ data[n] = "=" THEN 1 ELSE 0
        d == SubSeq(data, 1, n - cut)
    IN IF Len(d) % 4 = 1 \/ \E i \in DOMAIN d : ~IsB64Char(d[i])
       THEN [ok |-> FALSE, bytes |-> <<>>]
       ELSE [ok |-> TRUE,
             bytes |-> sextetsToBytes([i \in DOMAIN d |-> B64Index(d[i])], 1)]

ReplacementChar == 65533
ByteOrderMark == 65279

\* The UTF-8 decoder of TextDecoder, not fatal: the code points of a byte
\* sequence, U+FFFD for each ill-formed part.
RECURSIVE utf8Decode(_, _, _, _, _, _, _)
utf8Decode(bytes, i, needed, seen, cp, lower, upper) ==
    IF i > Len(bytes)
    THEN (IF needed # 0 THEN <<ReplacementChar>> ELSE <<>>)
    ELSE LET b == bytes[i]
         IN IF needed = 0
            THEN IF b <= 127
                 THEN <<b>> \o utf8Decode(bytes, i + 1, 0, 0, 0, 128, 191)
                 ELSE IF b >= 194 /\ b <= 223
                 THEN utf8Decode(bytes, i + 1, 1, 0, b % 32, 128, 191)
                 ELSE IF b >= 224 /\ b <= 239
                 THEN utf8Decode(bytes, i + 1, 2, 0, b % 16,
                                 IF b = 224 THEN 160 ELSE 128,
                                 IF b = 237 THEN 159 ELSE 191)
                 ELSE IF b >= 240 /\ b <= 244
                 THEN utf8Decode(bytes, i + 1, 3, 0, b % 8,
                                 IF b = 240 THEN 144 ELSE 128,
                                 IF b = 244 THEN 143 ELSE 191)
                 ELSE <<ReplacementChar>>
                      \o utf8Decode(bytes, i + 1, 0, 0, 0, 128, 191)
            ELSE IF b < lower \/ b > upper
                 THEN <<ReplacementChar>>
                      \o utf8Decode(bytes, i, 0, 0, 0, 128, 191)
                 ELSE IF seen + 1 = needed
                      THEN <<cp * 64 + (b % 64)>>
                           \o utf8Decode(bytes, i + 1, 0, 0, 0, 128, 191)
                      ELSE utf8Decode(bytes, i + 1, needed, seen + 1,
                                      cp * 64 + (b % 64), 128, 191)

\* new TextDecoder("utf-8", { ignoreBOM: true }).decode(bytes): the mark is
\* kept.
textDecode_keepsMark(bytes) == utf8Decode(bytes, 1, 0, 0, 0, 128, 191)

\* new TextDecoder().decode(bytes): a leading byte order mark is dropped.
textDecode(bytes) ==
    LET cps == utf8Decode(bytes, 1, 0, 0, 0, 128, 191)
    IN IF Len(cps) >= 1 /\ cps[1] = ByteOrderMark THEN Tail(cps) ELSE cps

\* base64UrlDecode(encoded): ok is false when atob throws; the value is the
\* decoded string, as its code points; bytes are the bytes of atob's string.
base64UrlDecode(encoded) ==
    LET binary == atob(pad(toBase64(encoded)))
    IN IF binary.ok
       THEN [ok |-> TRUE, value |-> textDecode(binary.bytes),
             bytes |-> binary.bytes]
       ELSE [ok |-> FALSE, value |-> <<>>, bytes |-> <<>>]

\* new TextEncoder().encode(input): the UTF-8 bytes of a string of scalar
\* values.
utf8EncodeOne(cp) ==
    IF cp <= 127 THEN <<cp>>
    ELSE IF cp <= 2047 THEN <<192 + (cp \div 64), 128 + (cp % 64)>>
    ELSE IF cp <= 65535
         THEN <<224 + (cp \div 4096), 128 + ((cp \div 64) % 64),
                128 + (cp % 64)>>
    ELSE <<240 + (cp \div 262144), 128 + ((cp \div 4096) % 64),
           128 + ((cp \div 64) % 64), 128 + (cp % 64)>>

RECURSIVE textEncode(_)
textEncode(input) ==
    IF input = <<>> THEN <<>>
    ELSE utf8EncodeOne(Head(input)) \o textEncode(Tail(input))

\* btoa(binary): three bytes to four characters, "=" for the missing bytes of
\* the last group.
RECURSIVE btoa(_, _)
btoa(bytes, i) ==
    LET left == Len(bytes) - i + 1
        ch(v) == B64Chars[v + 1]
    IN IF left <= 0 THEN <<>>
       ELSE IF left = 1
            THEN <<ch(bytes[i] \div 4), ch((bytes[i] % 4) * 16), "=", "=">>
       ELSE IF left = 2
            THEN <<ch(bytes[i] \div 4),
                   ch((bytes[i] % 4) * 16 + (bytes[i + 1] \div 16)),
                   ch((bytes[i + 1] % 16) * 4), "=">>
       ELSE <<ch(bytes[i] \div 4),
              ch((bytes[i] % 4) * 16 + (bytes[i + 1] \div 16)),
              ch((bytes[i + 1] % 16) * 4 + (bytes[i + 2] \div 64)),
              ch(bytes[i + 2] % 64)>> \o btoa(bytes, i + 3)

\* .replace(/=+$/g, "")
RECURSIVE stripPadding(_)
stripPadding(base64) ==
    IF Len(base64) > 0 /\ base64[Len(base64)] = "="
    THEN stripPadding(SubSeq(base64, 1, Len(base64) - 1))
    ELSE base64

\* .replace(/\+/g, "-").replace(/\//g, "_")
toUrlSafe(base64) ==
    [i \in DOMAIN base64 |->
        IF base64[i] = "+" THEN "-"
        ELSE IF base64[i] = "/" THEN "_" ELSE base64[i]]

base64UrlEncode(input) == stripPadding(toUrlSafe(btoa(textEncode(input), 1)))

\* The characters [A-Za-z0-9_-] of the token in cfiRegex.
IsTokenChar(c) == c \in {"-", "_"} \/ (IsB64Char(c) /\ c \notin {"+", "/"})

CfiMarker == <<"#", "c", "f", "i", "6", "4", "=">>

matchesAt(raw, i, pattern) ==
    /\ i + Len(pattern) - 1 <= Len(raw)
    /\ SubSeq(raw, i, i + Len(pattern) - 1) = pattern

\* raw.indexOf("#cfi64=") !== -1
hasCfiMarker(raw) == \E i \in DOMAIN raw : matchesAt(raw, i, CfiMarker)

\* The end of the longest run of token characters that starts at i.
RECURSIVE tokenEnd(_, _)
tokenEnd(raw, i) ==
    IF i <= Len(raw) /\ IsTokenChar(raw[i]) THEN tokenEnd(raw, i + 1) ELSE i - 1

\* The captures of /#cfi64=([A-Za-z0-9_-]+)/g over raw, from index i on, in
\* order.
RECURSIVE scanTokens(_, _)
scanTokens(raw, i) ==
    IF i > Len(raw) THEN <<>>
    ELSE IF /\ matchesAt(raw, i, CfiMarker)
            /\ tokenEnd(raw, i + Len(CfiMarker)) >= i + Len(CfiMarker)
         THEN << SubSeq(raw, i + Len(CfiMarker),
                        tokenEnd(raw, i + Len(CfiMarker))) >>
              \o scanTokens(raw, tokenEnd(raw, i + Len(CfiMarker)) + 1)
         ELSE scanTokens(raw, i + 1)

\* s.split("#")[0]
RECURSIVE beforeHash(_, _)
beforeHash(str, i) ==
    IF i > Len(str) \/ str[i] = "#" THEN SubSeq(str, 1, i - 1)
    ELSE beforeHash(str, i + 1)

\* The end of the longest run of characters other than "|" and "]" from i.
RECURSIVE targetEnd(_, _)
targetEnd(str, i) ==
    IF i <= Len(str) /\ str[i] \notin {"|", "]"} THEN targetEnd(str, i + 1)
    ELSE i - 1

\* original.match(/\[\[([^|\]]+)/)?.[1], or the empty string.
RECURSIVE wikiTarget(_, _)
wikiTarget(original, i) ==
    IF i + 1 > Len(original) THEN <<>>
    ELSE IF /\ original[i] = "[" /\ original[i + 1] = "["
            /\ targetEnd(original, i + 2) >= i + 2
         THEN SubSeq(original, i + 2, targetEnd(original, i + 2))
         ELSE wikiTarget(original, i + 1)

----------------------------------------------------------------------------
(* parseEpubCfi64Link *)

\* The characters U+0020 to U+007E, in order (U+0060 by its number).
Ascii ==
    <<" ", "!", "\"", "#", "$", "%", "&", "'", "(", ")", "*", "+",
       ",", "-", ".", "/", "0", "1", "2", "3", "4", "5", "6", "7",
       "8", "9", ":", ";", "<", "=", ">", "?", "@", "A", "B", "C",
       "D", "E", "F", "G", "H", "I", "J", "K", "L", "M", "N", "O",
       "P", "Q", "R", "S", "T", "U", "V", "W", "X", "Y", "Z", "[",
       "\\", "]", "^", "_", "U+96", "a", "b", "c", "d", "e", "f", "g",
       "h", "i", "j", "k", "l", "m", "n", "o", "p", "q", "r", "s",
       "t", "u", "v", "w", "x", "y", "z", "{", "|", "}", "~" >>

FirstAscii == 32
IsAscii(c) == \E i \in DOMAIN Ascii : Ascii[i] = c
CodeOf(c) == (CHOOSE i \in DOMAIN Ascii : Ascii[i] = c) + FirstAscii - 1

\* The character of a code point; a character outside Ascii is written
\* "U+" and its number.
CharOf(cp) ==
    IF cp >= FirstAscii /\ cp < FirstAscii + Len(Ascii)
    THEN Ascii[cp - FirstAscii + 1]
    ELSE "U+" \o ToString(cp)

HexDigits ==
    << "0", "1", "2", "3", "4", "5", "6", "7", "8", "9",
       "A", "B", "C", "D", "E", "F", "a", "b", "c", "d", "e", "f" >>
IsHex(c) == \E i \in DOMAIN HexDigits : HexDigits[i] = c
hexValue(c) ==
    LET i == CHOOSE j \in DOMAIN HexDigits : HexDigits[j] = c
    IN IF i <= 16 THEN i - 1 ELSE i - 7

\* Is there a %XX escape at i, and its byte.
escapeAt(str, i) ==
    /\ i + 2 <= Len(str)
    /\ str[i] = "%"
    /\ IsHex(str[i + 1])
    /\ IsHex(str[i + 2])
escapeByte(str, i) == hexValue(str[i + 1]) * 16 + hexValue(str[i + 2])

\* The number of bytes that the lead byte of an escape announces (0: none).
sequenceLength(b) ==
    IF b < 128 THEN 1
    ELSE IF b >= 192 /\ b <= 223 THEN 2
    ELSE IF b >= 224 /\ b <= 239 THEN 3
    ELSE IF b >= 240 /\ b <= 247 THEN 4
    ELSE 0

\* decodeURIComponent(str) from index i: ok is false for a URIError (a "%"
\* without two hex digits, or escapes that are no UTF-8 sequence).
RECURSIVE decodeURIComponent(_, _)
decodeURIComponent(str, i) ==
    IF i > Len(str) THEN [ok |-> TRUE, value |-> <<>>]
    ELSE IF str[i] # "%"
    THEN LET rest == decodeURIComponent(str, i + 1)
         IN [ok |-> rest.ok, value |-> <<str[i]>> \o rest.value]
    ELSE IF ~escapeAt(str, i) THEN [ok |-> FALSE, value |-> <<>>]
    ELSE LET n == sequenceLength(escapeByte(str, i))
             complete == /\ n > 0
                         /\ \A k \in 1 .. n - 1 : escapeAt(str, i + 3 * k)
             bytes == [k \in 1 .. n |-> escapeByte(str, i + 3 * (k - 1))]
             cps == utf8Decode(bytes, 1, 0, 0, 0, 128, 191)
         IN IF ~complete \/ Len(cps) # 1 \/ textEncode(cps) # bytes
            THEN [ok |-> FALSE, value |-> <<>>]
            ELSE LET rest == decodeURIComponent(str, i + 3 * n)
                 IN [ok |-> rest.ok,
                     value |-> <<CharOf(cps[1])>> \o rest.value]

\* The bytes of a name or a value of a query: "+" is a space, an escape is
\* its byte, anything else (a "%" without two hex digits too) is itself.
RECURSIVE formBytes(_, _)
formBytes(str, i) ==
    IF i > Len(str) THEN <<>>
    ELSE IF escapeAt(str, i)
         THEN <<escapeByte(str, i)>> \o formBytes(str, i + 3)
    ELSE IF str[i] = "+" THEN <<FirstAscii>> \o formBytes(str, i + 1)
    ELSE <<CodeOf(str[i])>> \o formBytes(str, i + 1)

formDecode(str) ==
    LET cps == utf8Decode(formBytes(str, 1), 1, 0, 0, 0, 128, 191)
    IN [k \in DOMAIN cps |-> CharOf(cps[k])]

\* The index of the first c in str from i on, Len(str) + 1 when there is
\* none.
RECURSIVE indexOf(_, _, _)
indexOf(str, c, i) ==
    IF i > Len(str) \/ str[i] \in c THEN i ELSE indexOf(str, c, i + 1)

\* u.searchParams.get("file") over the query from index i: the value of the
\* first pair named file, <<>> for null and for an empty value.
RECURSIVE searchParamsGetFile(_, _)
searchParamsGetFile(query, i) ==
    IF i > Len(query) THEN <<>>
    ELSE LET amp == indexOf(query, {"&"}, i)
             pair == SubSeq(query, i, amp - 1)
             eq == indexOf(pair, {"="}, 1)
             name == formDecode(SubSeq(pair, 1, eq - 1))
             value == formDecode(SubSeq(pair, eq + 1, Len(pair)))
         IN IF pair # <<>> /\ name = <<"f", "i", "l", "e">>
            THEN value
            ELSE searchParamsGetFile(query, amp + 1)

Scheme == <<"o", "b", "s", "i", "d", "i", "a", "n", ":", "/", "/">>

\* Characters that a host cannot hold.
ForbiddenHost == {" ", "<", ">", "[", "]", "^", "|", "\\"}

\* new URL(raw) of a raw that starts with obsidian:// and has no port, no
\* credentials, and a fragment of characters that are written as they are:
\* ok is false for a TypeError; query is the text after the first "?", hash
\* the fragment with its "#", empty for an empty fragment.
parseUrl(raw) ==
    LET rest == SubSeq(raw, Len(Scheme) + 1, Len(raw))
        hashAt == indexOf(rest, {"#"}, 1)
        main == SubSeq(rest, 1, hashAt - 1)
        queryAt == indexOf(main, {"?"}, 1)
        host == SubSeq(main, 1, indexOf(main, {"/", "?"}, 1) - 1)
    IN [ ok |-> \A k \in DOMAIN host : host[k] \notin ForbiddenHost,
         query |-> SubSeq(main, queryAt + 1, Len(main)),
         hash |-> IF hashAt >= Len(rest) THEN <<>>
                  ELSE SubSeq(rest, hashAt, Len(rest)) ]

\* The raw after the obsidian:// branch: the decoded file parameter and the
\* hash, or raw itself when the branch changes nothing or fails.
afterDeepLink(raw) ==
    IF ~matchesAt(raw, 1, Scheme) THEN raw
    ELSE LET u == parseUrl(raw)
             fileParam == searchParamsGetFile(u.query, 1)
             decoded == decodeURIComponent(fileParam, 1)
         IN IF u.ok /\ fileParam # <<>> /\ decoded.ok
            THEN decoded.value \o u.hash
            ELSE raw

\* raw.split("#", 2): the text before the first "#" and the text between
\* the first and the second; hasHash is false when hashRaw is undefined.
splitHash(raw) ==
    LET first == indexOf(raw, {"#"}, 1)
        second == indexOf(raw, {"#"}, first + 1)
    IN [ pathPartRaw |-> SubSeq(raw, 1, first - 1),
         hasHash |-> first <= Len(raw),
         hashRaw |-> SubSeq(raw, first + 1, second - 1) ]

\* toLowerCase() of a character of Ascii.
toLowerCase(str) ==
    [k \in DOMAIN str |->
        IF IsAscii(str[k]) /\ CodeOf(str[k]) >= 65 /\ CodeOf(str[k]) <= 90
        THEN CharOf(CodeOf(str[k]) + 32)
        ELSE str[k]]

EpubExtension == <<".", "e", "p", "u", "b">>

\* str.endsWith(suffix)
endsWithString(str, suffix) ==
    /\ Len(str) >= Len(suffix)
    /\ SubSeq(str, Len(str) - Len(suffix) + 1, Len(str)) = suffix

\* hashRaw.match(/cfi64=([A-Za-z0-9_-]+)/)?.[1] from index i, <<>> when there
\* is no match.
RECURSIVE firstToken(_, _)
firstToken(hashRaw, i) ==
    LET marker == Tail(CfiMarker)
    IN IF i > Len(hashRaw) THEN <<>>
       ELSE IF /\ matchesAt(hashRaw, i, marker)
               /\ tokenEnd(hashRaw, i + Len(marker)) >= i + Len(marker)
            THEN SubSeq(hashRaw, i + Len(marker),
                        tokenEnd(hashRaw, i + Len(marker)))
            ELSE firstToken(hashRaw, i + 1)

NullLink == [kind |-> "null", path |-> <<>>, cfi64 |-> <<>>]
ThrownLink == [kind |-> "throw", path |-> <<>>, cfi64 |-> <<>>]

\* parseEpubCfi64Link(hrefOrDataHref): null, a {path, cfi64}, or the
\* URIError of the decodeURIComponent outside the try.
parseEpubCfi64Link(hrefOrDataHref) ==
    IF hrefOrDataHref = <<>> THEN NullLink
    ELSE LET raw == afterDeepLink(hrefOrDataHref)
             parts == splitHash(raw)
             pathPart == decodeURIComponent(parts.pathPartRaw, 1)
             m == firstToken(parts.hashRaw, 1)
         IN IF ~pathPart.ok THEN ThrownLink
            ELSE IF ~endsWithString(toLowerCase(pathPart.value), EpubExtension)
                 THEN NullLink
            ELSE IF ~parts.hasHash \/ parts.hashRaw = <<>> THEN NullLink
            ELSE IF m = <<>> THEN NullLink
            ELSE [kind |-> "result", path |-> normalizePath(pathPart.value),
                  cfi64 |-> m]

----------------------------------------------------------------------------
(* BacklinkManager *)

DefaultLimit == 200
MaxBacklinkOps == 3

NoteIds == 1 .. 2
Digits == <<"1", "2", "3", "4", "5", "6", "7", "8", "9">>
NoteBasename(n) == <<"n", Digits[n]>>
NotePath(n) == NoteBasename(n) \o <<".", "m", "d">>

\* Tokens: two encodings of the location "A", one of "B", and one atob
\* rejects.
TokA == <<"Q", "Q">>
TokA2 == <<"Q", "R">>
TokB == <<"Q", "g">>
TokBad == <<"Q">>

\* displayText of a link without an alias part.
Absent == <<"undefined">>

\* The link record of [[book#cfi64=token|alias]] in a note's file cache.
WikiItem(book, token, alias) ==
    [ link |-> book \o CfiMarker \o token,
      original |-> <<"[", "[">> \o book \o CfiMarker \o token
                   \o (IF alias = Absent THEN <<>> ELSE <<"|">> \o alias)
                   \o <<"]", "]">>,
      subpath |-> <<>>,
      displayText |-> alias ]

FileCache(links, embeds) == [present |-> TRUE, links |-> links, embeds |-> embeds]

NoteContents ==
    { FileCache(<<>>, <<>>),
      FileCache(<<WikiItem(BookA, TokA, <<"q">>)>>, <<>>),
      FileCache(<<WikiItem(BookA, TokA, Absent)>>,
                <<WikiItem(BookA, TokA, Absent)>>),
      FileCache(<<WikiItem(BookA, TokA2, Absent)>>, <<>>),
      FileCache(<<WikiItem(BookA, TokBad, Absent),
                  WikiItem(BookA, TokB, <<"q">>)>>, <<>>),
      FileCache(<<WikiItem(BookB, TokA, Absent)>>, <<>>),
      FileCache(<<WikiItem(BookA, TokA \o <<"&", "c", "f", "i", "6", "4", "=">>
                                       \o TokB, Absent)>>, <<>>) }

\* What a note is rewritten to.
EditContents ==
    { FileCache(<<>>, <<>>),
      FileCache(<<WikiItem(BookA, TokB, Absent)>>, <<>>) }

Books == {BookA, BookB}
Limits == {1, DefaultLimit}

\* metadataCache.getFirstLinkpathDest(linkpath, sourcePath): the file whose
\* path the link path is; an empty link path is the source itself.
getFirstLinkpathDest(linkpath, sourcePath) ==
    IF linkpath = <<>> THEN sourcePath
    ELSE IF linkpath \in Books \/ \E n \in NoteIds : linkpath = NotePath(n)
         THEN linkpath
         ELSE NoPath

\* metadataCache.getFileCache(sourceFile)
getFileCache(n) == notes[n].cache

itemsOf(cache) == cache.links \o cache.embeds

\* The path a link record is resolved from.
resolvedPathOf(item) ==
    IF beforeHash(item.link, 1) # <<>> THEN beforeHash(item.link, 1)
    ELSE beforeHash(wikiTarget(item.original, 1), 1)

\* The notes the host's link index lists for the book, in the host's order:
\* those with an indexed link that resolves to it.
LinksTo(n, bookPath) ==
    \E k \in DOMAIN itemsOf(getFileCache(n)) :
        getFirstLinkpathDest(resolvedPathOf(itemsOf(getFileCache(n))[k]),
                             NotePath(n)) = bookPath

RECURSIVE ascending(_)
ascending(S) ==
    IF S = {} THEN <<>>
    ELSE LET m == CHOOSE x \in S : \A y \in S : x <= y
         IN <<m>> \o ascending(S \ {m})

\* The keys of getBacklinksForFile(bookFile).data, none when the host has
\* no such function.
backlinksData(bookPath) ==
    IF hostApi THEN ascending({n \in NoteIds : LinksTo(n, bookPath)}) ELSE <<>>
resolvedLinksSources(bookPath) ==
    ascending({n \in NoteIds : LinksTo(n, bookPath)})

\* candidatesOf() without the scan of resolvedLinks.
candidatesOf_noFallback(bookPath) == backlinksData(bookPath)

candidatesOf(bookPath) ==
    IF Len(backlinksData(bookPath)) > 0 THEN backlinksData(bookPath)
    ELSE resolvedLinksSources(bookPath)

\* buildCacheKey: the book path, the number of candidates, and the sorted
\* "path:mtime" parts.
buildCacheKey(bookPath, candidates) ==
    [ bookPath |-> bookPath, count |-> Len(candidates),
      parts |-> LET ids == ascending({candidates[i] : i \in DOMAIN candidates})
                IN [i \in DOMAIN ids |->
                       [path |-> NotePath(ids[i]), mtime |-> notes[ids[i]].mtime]] ]

NoKey == [bookPath |-> NoPath, count |-> -1, parts |-> <<>>]

RECURSIVE flatten(_, _)
flatten(seqs, i) ==
    IF i > Len(seqs) THEN <<>> ELSE seqs[i] \o flatten(seqs, i + 1)

\* The tokens one link record of a note gives for the book, in the order the
\* loops meet them, each with the note and the display label.
itemOccurrences(item, n, bookPath) ==
    LET dest == getFirstLinkpathDest(resolvedPathOf(item), NotePath(n))
        candidateStrings ==
            SelectSeq(<<item.original, item.link, item.subpath>>,
                      LAMBDA v : v # <<>>)
        display == IF item.displayText = Absent THEN NoteBasename(n)
                   ELSE item.displayText
        tokens == flatten([i \in DOMAIN candidateStrings |->
                              scanTokens(candidateStrings[i], 1)], 1)
    IN IF dest = NoPath \/ dest # bookPath THEN <<>>
       ELSE IF ~\E i \in DOMAIN candidateStrings :
                  hasCfiMarker(candidateStrings[i])
            THEN <<>>
       ELSE [i \in DOMAIN tokens |->
                [token |-> tokens[i], source |-> NotePath(n),
                 display |-> display]]

\* The tokens of raw in the form '#cfi64=t1&cfi64=t2': each run of token
\* characters after a 'cfi64=' that follows '#' or '&'.
RECURSIVE scanListedTokens(_, _)
scanListedTokens(raw, i) ==
    IF i > Len(raw) THEN {}
    ELSE IF /\ raw[i] \in {"#", "&"}
            /\ matchesAt(raw, i + 1, Tail(CfiMarker))
            /\ tokenEnd(raw, i + Len(CfiMarker)) >= i + Len(CfiMarker)
         THEN {SubSeq(raw, i + Len(CfiMarker),
                      tokenEnd(raw, i + Len(CfiMarker)))}
              \cup scanListedTokens(raw, tokenEnd(raw, i + Len(CfiMarker)) + 1)
         ELSE scanListedTokens(raw, i + 1)

\* The tokens in that form in the links of a note to the book.
listedTokens(n, bookPath) ==
    LET items == itemsOf(getFileCache(n))
    IN UNION {scanListedTokens(items[k].link, 1) :
                 k \in {j \in DOMAIN items :
                           getFirstLinkpathDest(resolvedPathOf(items[j]),
                                                NotePath(n)) = bookPath}}

noteOccurrences(n, bookPath) ==
    LET cache == getFileCache(n)
    IN IF ~cache.present THEN <<>>
       ELSE flatten([k \in DOMAIN itemsOf(cache) |->
                        itemOccurrences(itemsOf(cache)[k], n, bookPath)], 1)

\* The body of the exec loop without the try/catch: a token that does not
\* decode ends the call with the error.
visit_rethrows(acc, occ, limit) ==
    IF acc.done \/ occ.token \in acc.seen THEN acc
    ELSE LET d == base64UrlDecode(occ.token)
             a1 == [acc EXCEPT !.seen = @ \cup {occ.token},
                               !.source = occ.source,
                               !.decoded = Append(@, occ.token)]
             r == Append(acc.results,
                         [cfiRange |-> d.value, sourceFile |-> occ.source,
                          display |-> occ.display])
         IN IF ~d.ok THEN [a1 EXCEPT !.threw = TRUE, !.done = TRUE]
            ELSE [a1 EXCEPT !.results = r,
                            !.pushed = Append(@, occ.token),
                            !.done = Len(r) >= limit]

\* The body of the exec loop that skips no token.
visit_noDedup(acc, occ, limit) ==
    IF acc.done THEN acc
    ELSE LET d == base64UrlDecode(occ.token)
             a1 == [acc EXCEPT !.seen = @ \cup {occ.token},
                               !.decoded = Append(@, occ.token)]
             r == Append(acc.results,
                         [cfiRange |-> d.value, sourceFile |-> occ.source,
                          display |-> occ.display])
         IN IF ~d.ok THEN a1    \* caught and logged
            ELSE [a1 EXCEPT !.results = r,
                            !.pushed = Append(@, occ.token),
                            !.done = Len(r) >= limit]

\* The body of the exec loop with a set of seen tokens for each note.
visit_perNote(acc, occ, limit) ==
    IF acc.done \/ (occ.token \in acc.seen /\ acc.source = occ.source) THEN acc
    ELSE LET d == base64UrlDecode(occ.token)
             a1 == [acc EXCEPT !.seen = (IF acc.source = occ.source THEN @
                                         ELSE {}) \cup {occ.token},
                               !.source = occ.source,
                               !.decoded = Append(@, occ.token)]
             r == Append(acc.results,
                         [cfiRange |-> d.value, sourceFile |-> occ.source,
                          display |-> occ.display])
         IN IF ~d.ok THEN a1    \* caught and logged
            ELSE [a1 EXCEPT !.results = r,
                            !.pushed = Append(@, occ.token),
                            !.done = Len(r) >= limit]

\* The body of the exec loop for one token: skip it when seen, else decode
\* it, and push a highlight unless the decoding throws; done when the limit
\* is reached.
visit(acc, occ, limit) ==
    IF acc.done \/ occ.token \in acc.seen THEN acc
    ELSE LET d == base64UrlDecode(occ.token)
             a1 == [acc EXCEPT !.seen = @ \cup {occ.token},
                               !.source = occ.source,
                               !.decoded = Append(@, occ.token)]
             r == Append(acc.results,
                         [cfiRange |-> d.value, sourceFile |-> occ.source,
                          display |-> occ.display])
         IN IF ~d.ok THEN a1    \* caught and logged
            ELSE [a1 EXCEPT !.results = r,
                            !.pushed = Append(@, occ.token),
                            !.done = Len(r) >= limit]

RECURSIVE visitAll(_, _, _, _)
visitAll(acc, occs, i, limit) ==
    IF i > Len(occs) THEN acc
    ELSE visitAll(visit(acc, occs[i], limit), occs, i + 1, limit)

\* The loop over the candidates.
RECURSIVE resolveFrom(_, _, _, _, _)
resolveFrom(acc, candidates, i, bookPath, limit) ==
    IF i > Len(candidates) \/ acc.done THEN acc
    ELSE resolveFrom(
            visitAll([acc EXCEPT !.read = Append(@, candidates[i])],
                     noteOccurrences(candidates[i], bookPath), 1, limit),
            candidates, i + 1, bookPath, limit)

\* The cache test that never finds the cached results current.
cacheHit_never(m, bookPath, cacheKey) == FALSE

cacheHit(m, bookPath, cacheKey) ==
    m.lastBookPath = bookPath /\ m.lastCacheKey = cacheKey

updateCache(m, bookPath, cacheKey, results) ==
    [ lastBookPath |-> bookPath, lastCacheKey |-> cacheKey,
      cachedResults |-> results ]

\* getHighlightsForBook(bookFile, limit): the manager afterwards, the array
\* returned (its identity and its entries), and what the call read and
\* decoded.
resolveWith(m, bookPath, limit, candidates) ==
    LET cacheKey == buildCacheKey(bookPath, candidates)
        acc == resolveFrom([ seen |-> {}, results |-> <<>>, decoded |-> <<>>,
                             pushed |-> <<>>, read |-> <<>>, done |-> FALSE,
                             threw |-> FALSE, source |-> NoPath ],
                           candidates, 1, bookPath, limit)
        results == [id |-> arraySeq + 1, items |-> acc.results]
    IN IF cacheHit(m, bookPath, cacheKey)
       THEN [ mgr |-> m, ret |-> m.cachedResults, hit |-> TRUE,
              threw |-> FALSE,
              read |-> <<>>, decoded |-> <<>>, pushed |-> <<>>,
              key |-> cacheKey, arrays |-> arraySeq ]
       ELSE IF acc.threw
       THEN [ mgr |-> m, ret |-> [id |-> -1, items |-> <<>>], hit |-> FALSE,
              threw |-> TRUE,
              read |-> acc.read, decoded |-> acc.decoded,
              pushed |-> acc.pushed,
              key |-> cacheKey, arrays |-> arraySeq + 1 ]
       ELSE [ mgr |-> updateCache(m, bookPath, cacheKey, results),
              ret |-> results, hit |-> FALSE, threw |-> FALSE,
              read |-> acc.read, decoded |-> acc.decoded,
              pushed |-> acc.pushed,
              key |-> cacheKey, arrays |-> arraySeq + 1 ]

tokensOf(occs) == [k \in DOMAIN occs |-> occs[k].token]

getHighlightsForBook(m, bookPath, limit) ==
    resolveWith(m, bookPath, limit, candidatesOf(bookPath))

NoCall == [book |-> NoPath, key |-> NoKey, ret |-> [id |-> -1, items |-> <<>>]]

GetHighlightsForBook(bookPath, limit) ==
    /\ bookPath \in Books
    /\ blOps < MaxBacklinkOps
    /\ blOps' = blOps + 1
    /\ \E r \in {getHighlightsForBook(mgr, bookPath, limit)} :
          /\ mgr' = r.mgr
          /\ arraySeq' = r.arrays
          /\ hop' = [ name |-> "getHighlightsForBook", book |-> bookPath,
                      limit |-> limit, note |-> 0, ret |-> r.ret,
                      hit |-> r.hit, threw |-> r.threw,
                      read |-> r.read, decoded |-> r.decoded,
                      pushed |-> r.pushed, key |-> r.key,
                      candidates |-> candidatesOf(bookPath),
                      found |-> [n \in NoteIds |->
                                    tokensOf(noteOccurrences(n, bookPath))],
                      listed |-> [n \in NoteIds |->
                                     listedTokens(n, bookPath)],
                      viaApi |-> Len(backlinksData(bookPath)) > 0,
                      prev |-> hop.last,
                      last |-> [book |-> bookPath, key |-> r.key,
                                ret |-> r.ret] ]
    /\ UNCHANGED <<trackerVars, storeVars, saveVars, codecVars,
                   viewVars, notes, mclock,
                   hostApi>>

\* A note's file is written: new links, a new modification time; the file
\* cache still holds the links indexed before.
ModifyNote(n, content) ==
    /\ content \in EditContents
    /\ blOps < MaxBacklinkOps
    /\ blOps' = blOps + 1
    /\ mclock' = mclock + 1
    /\ notes' = [notes EXCEPT ![n] = [ mtime |-> mclock + 1, file |-> content,
                                      cache |-> @.cache ]]
    /\ hop' = [hop EXCEPT !.name = "modify", !.note = n]
    /\ UNCHANGED <<trackerVars, storeVars, saveVars, codecVars, viewVars,
                   mgr, arraySeq, hostApi>>

\* The host indexes a modified note.
IndexNote(n) ==
    /\ notes[n].cache # notes[n].file
    /\ blOps < MaxBacklinkOps
    /\ blOps' = blOps + 1
    /\ notes' = [notes EXCEPT ![n].cache = notes[n].file]
    /\ hop' = [hop EXCEPT !.name = "index", !.note = n]
    /\ UNCHANGED <<trackerVars, storeVars, saveVars, codecVars, viewVars,
                   mclock, mgr, arraySeq, hostApi>>

\* A new manager.
ManagerInit ==
    /\ mclock = 0
    /\ mgr = [ lastBookPath |-> NoPath, lastCacheKey |-> NoKey,
               cachedResults |-> [id |-> 0, items |-> <<>>] ]
    /\ arraySeq = 0
    /\ blOps = 0
    /\ hop = [ name |-> "init", book |-> NoPath, limit |-> 0, note |-> 0,
               ret |-> [id |-> 0, items |-> <<>>], hit |-> FALSE,
               threw |-> FALSE, read |-> <<>>, decoded |-> <<>>, pushed |-> <<>>,
               key |-> NoKey, candidates |-> <<>>,
               found |-> [n \in NoteIds |-> <<>>],
               listed |-> [n \in NoteIds |-> {}], viaApi |-> FALSE,
               prev |-> NoCall, last |-> NoCall ]

\* A vault whose notes are indexed: empty notes, or notes of any content,
\* and in AnyVault also one whose first note waits for the index.
EmptyVault ==
    /\ hostApi = TRUE
    /\ notes = [n \in NoteIds |-> [mtime |-> 0, file |-> FileCache(<<>>, <<>>),
                                cache |-> FileCache(<<>>, <<>>)]]

IndexedNotes == {[mtime |-> 0, file |-> c, cache |-> c] : c \in NoteContents}

\* A note that links the book with one location in the index and was
\* written with another: the host has not indexed the new text yet.
RewrittenNote ==
    [ mtime |-> 0,
      file |-> FileCache(<<WikiItem(BookA, TokB, Absent)>>, <<>>),
      cache |-> FileCache(<<WikiItem(BookA, TokA, <<"q">>)>>, <<>>) ]

AnyVault ==
    /\ hostApi \in BOOLEAN
    /\ notes \in [NoteIds -> IndexedNotes]
                 \cup {[n \in NoteIds |-> IF n = 1 THEN RewrittenNote ELSE x] :
                          x \in IndexedNotes}

BacklinkNext ==
    \/ \E b \in Books, l \in Limits : GetHighlightsForBook(b, l)
    \/ \E n \in NoteIds, c \in EditContents : ModifyNote(n, c)
    \/ \E n \in NoteIds : IndexNote(n)

----------------------------------------------------------------------------
(* The two codec functions and the link parser, applied to an input *)

MaxStringLen == 3
MaxTokenLen == 4

\* Code points of the strings: ">" and "?" (whose bytes give "+" and "/" in
\* base64), "A", U+00E9, U+20AC, U+1F600 and U+FEFF.
StringChars == {62, 63, 65, 233, 8364, 128512, ByteOrderMark}
Strings == UNION {[1 .. n -> StringChars] : n \in 0 .. MaxStringLen}

\* Characters of the tokens handed to base64UrlDecode.
TokenChars == {"Q", "g", "w", "_", "+", "=", " ", "*"}
Tokens == UNION {[1 .. n -> TokenChars] : n \in 0 .. MaxTokenLen}

LinkPaths ==
    { <<"a", ".", "e", "p", "u", "b">>,
      <<"F", "/", "a", ".", "E", "P", "U", "B">>,
      <<"a", ".", "t", "x", "t">>,
      <<"a", "%", "2", "E", "e", "p", "u", "b">>,
      <<"a", "%", ".", "e", "p", "u", "b">>,
      <<"%", "F", "F", ".", "e", "p", "u", "b">>,
      <<"%", "C", "3", "%", "A", "9", ".", "e", "p", "u", "b">>,
      <<"/", "F", "/", "/", "a", ".", "e", "p", "u", "b">>,
      <<>>,
      <<"o", "b", "s", "i", "d", "i", "a", "n", ":", "/", "/", "o", "p",
        "e", "n", "?", "f", "i", "l", "e", "=", "F", "%", "2", "F", "a",
        ".", "e", "p", "u", "b">>,
      <<"o", "b", "s", "i", "d", "i", "a", "n", ":", "/", "/", "o", "p",
        "e", "n", "?", "f", "i", "l", "e", "=", "a", "%", "2", "5", "2",
        "5", ".", "e", "p", "u", "b">>,
      <<"o", "b", "s", "i", "d", "i", "a", "n", ":", "/", "/", "o", "p",
        "e", "n", "?", "f", "i", "l", "e", "=", "a", "%", "2", "5", ".",
        "e", "p", "u", "b">>,
      <<"o", "b", "s", "i", "d", "i", "a", "n", ":", "/", "/", "o", "p",
        "e", "n", "?", "v", "a", "u", "l", "t", "=", "v", "&", "f", "i",
        "l", "e", "=", "a", ".", "e", "p", "u", "b">>,
      <<"o", "b", "s", "i", "d", "i", "a", "n", ":", "/", "/", "o", "p",
        "e", "n", "?", "v", "a", "u", "l", "t", "=", "v">>,
      <<"o", "b", "s", "i", "d", "i", "a", "n", ":", "/", "/", "[", "?",
        "f", "i", "l", "e", "=", "a", ".", "e", "p", "u", "b">>,
      <<"o", "b", "s", "i", "d", "i", "a", "n", ":", "/", "/", "o", "p",
        "e", "n", "?", "f", "i", "l", "e", "=", "a", ".", "e", "p", "u",
        "b", "%", "2", "3", "c", "f", "i", "6", "4", "%", "3", "D", "Q",
        "Q">> }

LinkFragments ==
    { <<>>,
      <<"#">>,
      <<"#", "c", "f", "i", "6", "4", "=", "Q", "Q">>,
      <<"#", "c", "f", "i", "6", "4", "=">>,
      <<"#", "x", "&", "c", "f", "i", "6", "4", "=", "Q", "-", "_", "g",
        "*", "z">>,
      <<"#", "x", "#", "c", "f", "i", "6", "4", "=", "Q", "Q">>,
      <<"#", "c", "f", "i", "6", "4", "=", "*", "c", "f", "i", "6", "4",
        "=", "Q", "g">>,
      <<"#", "C", "F", "I", "6", "4", "=", "Q", "Q">> }

Links == {p \o f : p \in LinkPaths, f \in LinkFragments}

NoResult == [done |-> FALSE, ok |-> FALSE, value |-> <<>>, bytes |-> <<>>]
NoCodec == [kind |-> "none", str |-> <<>>, hasTok |-> FALSE, tok |-> <<>>,
            res |-> NoResult, file |-> <<>>]
NoParse == [given |-> FALSE, raw |-> <<>>, done |-> FALSE, out |-> NullLink]

\* base64UrlEncode(str) is called.
Base64UrlEncode ==
    /\ codec.kind = "string"
    /\ ~codec.hasTok
    /\ codec' = [codec EXCEPT !.hasTok = TRUE, !.tok = base64UrlEncode(codec.str)]
    /\ UNCHANGED <<trackerVars, storeVars, saveVars, backlinkVars, viewVars,
                   parse>>

\* base64UrlDecode(tok) is called.
Base64UrlDecode ==
    /\ codec.hasTok
    /\ ~codec.res.done
    /\ \E r \in {base64UrlDecode(codec.tok)} :
          codec' = [codec EXCEPT !.res = [done |-> TRUE, ok |-> r.ok,
                                          value |-> r.value,
                                          bytes |-> r.bytes]]
    /\ UNCHANGED <<trackerVars, storeVars, saveVars, backlinkVars, viewVars,
                   parse>>

\* parseEpubCfi64Link(raw) is called.
ParseEpubCfi64Link ==
    /\ parse.given
    /\ ~parse.done
    /\ parse' = [parse EXCEPT !.done = TRUE,
                              !.out = parseEpubCfi64Link(parse.raw)]
    /\ UNCHANGED <<trackerVars, storeVars, saveVars, backlinkVars, viewVars,
                   codec>>

\* The paths of the books a link is copied from: file.path of the view.
CopyPaths ==
    { <<"a", ".", "e", "p", "u", "b">>,
      <<"F", "/", "a", ".", "e", "p", "u", "b">>,
      <<"a", "%", ".", "e", "p", "u", "b">>,
      <<"%", "4", "1", ".", "e", "p", "u", "b">> }

\* handleCopyLink(): the link target written between "[[" and "|label]]",
\* which is what a click on the rendered link hands to parseEpubCfi64Link
\* and what the resolver scans.
copiedLink(path, cfiRange) == path \o CfiMarker \o base64UrlEncode(cfiRange)

\* The selection of codec.str in the book codec.file is copied as a link.
HandleCopyLink ==
    /\ codec.kind = "copy"
    /\ ~codec.hasTok
    /\ codec' = [codec EXCEPT !.hasTok = TRUE, !.tok = base64UrlEncode(codec.str)]
    /\ parse' = [parse EXCEPT !.given = TRUE,
                              !.raw = copiedLink(codec.file, codec.str)]
    /\ UNCHANGED <<trackerVars, storeVars, saveVars, backlinkVars, viewVars>>

CodecIdle == codec = NoCodec /\ parse = NoParse

CodecInputs ==
    \/ /\ codec \in {[NoCodec EXCEPT !.kind = "string", !.str = str] :
                        str \in Strings}
       /\ parse = NoParse
    \/ /\ codec \in {[NoCodec EXCEPT !.kind = "token", !.hasTok = TRUE,
                                     !.tok = tok] : tok \in Tokens}
       /\ parse = NoParse
    \/ /\ codec = NoCodec
       /\ parse \in {[NoParse EXCEPT !.given = TRUE, !.raw = raw] :
                        raw \in Links}
    \/ /\ codec \in {[NoCodec EXCEPT !.kind = "copy", !.str = str,
                                     !.file = path] :
                        str \in Strings \ {<<>>}, path \in CopyPaths}
       /\ parse = NoParse

CodecNext ==
    \/ Base64UrlEncode
    \/ Base64UrlDecode
    \/ ParseEpubCfi64Link
    \/ HandleCopyLink

----------------------------------------------------------------------------
(* EpubView *)

backlinkDebounceMs == 4000
MaxViewOps == 4
MaxViewAdvances == 1
ViewSteps == {2000, 5000}
ViewPaths == {BookA, BookB}
JumpTokens == {TokA, TokBad}

NullKey == <<"null">>

\* getHighlightsKey(list)
getHighlightsKey(list) ==
    [k \in DOMAIN list |-> <<list[k].cfiRange, list[k].sourceFile>>]

\* onFlush: (deltaMs, filePath) => this.plugin.addReadingTime(filePath,
\* deltaMs), for each flush of a tracker operation.
RECURSIVE applyFlushes(_, _, _)
applyFlushes(st, calls, i) ==
    IF i > Len(calls) THEN st
    ELSE applyFlushes(addReadingTime(st, calls[i][2],
                                     [kind |-> "finite", v |-> calls[i][1]]),
                      calls, i + 1)

\* scheduleSave is requestSave: one call for each signal of the store.
RECURSIVE requestSaves(_, _)
requestSaves(ss, n) ==
    IF n = 0 THEN ss ELSE requestSaves(requestSave(ss), n - 1)

\* sessionCount of a path in a progress map, 0 when there is no entry.
SessionCount(prog, path) ==
    IF HasKey(prog, normalizeProgressKey(path))
    THEN Coalesce(Lookup(prog, normalizeProgressKey(path)).sessionCount, 0)
    ELSE 0

\* The state after a step of the view: tr is the tracker after it and st the
\* store after it; write tells that savePluginData() ran.  vop records the
\* step, whether recordActivity() was called since the last load of another
\* book, and the paths the view had when the pending time was accrued.
ViewCommit(name, path, tr, st, write) ==
    /\ timers' = tr.timers
    /\ readTimer' = tr.readTimer
    /\ readTimePendingMs' = tr.readTimePendingMs
    /\ lastTickAt' = tr.lastTickAt
    /\ isActiveLeaf' = tr.isActiveLeaf
    /\ lastActivityAt' = tr.lastActivityAt
    /\ onFlushCalls' = tr.calls
    /\ settings' = st.settings
    /\ progress' = st.progress
    /\ saves' = st.saves
    /\ LET ss == requestSaves(SaveState, st.saves)
       IN /\ saveTimer' = ss.saveTimer
          /\ timeouts' = ss.timeouts
          /\ timerSeq' = ss.timerSeq
    /\ saveData' = IF write
                    THEN [ doc |-> savePluginData(st), at |-> now,
                           by |-> "saveSettings",
                           timerWrites |-> saveData.timerWrites,
                           writes |-> saveData.writes + 1 ]
                    ELSE saveData
    /\ vop' = [ name |-> name, path |-> path,
                activitySinceLoad |->
                    IF name = "onLoadFile" /\ path # filePath THEN FALSE
                    ELSE IF name = "recordActivity" THEN TRUE
                    ELSE vop.activitySinceLoad,
                accruedFor |->
                    IF tr.readTimePendingMs = 0 THEN {}
                    ELSE IF tr.readTimePendingMs > readTimePendingMs
                    THEN vop.accruedFor \cup {filePath}
                    ELSE vop.accruedFor ]
    /\ UNCHANGED <<now, advances, activityEver, op, storeOps, sop, saveHist,
                   codecVars>>

\* onLoadFile() that does not record a reading session.
openBook_noSession(st, path) == st

\* onLoadFile(): this.plugin.recordReadingSession(file.path)
openBook(st, path) == recordReadingSession(st, path)

\* renderReader() that records a reading session.
renderReader_recordsSession(st, path) == recordReadingSession(st, path)

\* renderReader(): it reads getProgress(path) and the settings, and writes
\* nothing.
renderReader(st, path) == st

\* The host sets this.file and calls onLoadFile(file); readBinary returns.
OnLoadFile(path, active) ==
    /\ viewOpen
    /\ viewOps < MaxViewOps
    /\ \E i \in 1..MaxTimers : i \notin timers \ {readTimer}
    /\ \E r \in {getHighlightsForBook(mgr, path, DefaultLimit)} :
       \E tr \in {start(setActiveLeaf(stop([TrackerState EXCEPT !.path = path]),
                                      active))} :
          /\ ViewCommit("onLoadFile", path, tr,
                        renderReader(openBook(applyFlushes(StoreState,
                                                           tr.calls, 1),
                                              path),
                                     path),
                        FALSE)
          /\ mgr' = r.mgr
          /\ arraySeq' = r.arrays
          /\ highlightsKey' = getHighlightsKey(r.ret.items)
    /\ filePath' = path
    /\ fileContent' = TRUE
    /\ viewIsActiveLeaf' = active
    /\ mounted' = TRUE
    /\ viewOps' = viewOps + 1
    /\ UNCHANGED <<notes, mclock, hostApi, blOps, hop, viewOpen, refreshTimer,
                   refreshTimeouts, refreshSeq, backlinksDirty, afterClose>>

\* The host sets this.file and calls onLoadFile(file); readBinary rejects,
\* after the reader was unmounted.
OnLoadFileFails(path) ==
    /\ viewOpen
    /\ viewOps < MaxViewOps
    /\ ViewCommit("onLoadFile rejected", path,
                  [TrackerState EXCEPT !.path = path], StoreState, FALSE)
    /\ filePath' = path
    /\ mounted' = FALSE
    /\ viewOps' = viewOps + 1
    /\ UNCHANGED <<backlinkVars, viewOpen, fileContent, viewIsActiveLeaf,
                   refreshTimer, refreshTimeouts, refreshSeq, backlinksDirty,
                   highlightsKey, afterClose>>

CanRender == filePath # NoPath /\ fileContent

\* plugin.saveSettings() from the settings tab: the views are rendered
\* again.
SaveSettings(value) ==
    /\ viewOpen
    /\ viewOps < MaxViewOps
    /\ ViewCommit("saveSettings", filePath, TrackerState,
                  LET st == [StoreState EXCEPT !.settings.fontSizePercent = value]
                  IN IF CanRender THEN renderReader(st, filePath) ELSE st,
                  TRUE)
    /\ mounted' = (mounted \/ CanRender)
    /\ viewOps' = viewOps + 1
    /\ UNCHANGED <<filePath, backlinkVars, viewOpen, fileContent,
                   viewIsActiveLeaf, refreshTimer, refreshTimeouts, refreshSeq,
                   backlinksDirty, highlightsKey, afterClose>>

\* setEphemeralState({cfi64}): handleJumpFromCfi64 renders when the token
\* decodes.
Jump(encoded) ==
    /\ viewOpen
    /\ viewOps < MaxViewOps
    /\ \E d \in {base64UrlDecode(encoded)} :
          /\ ViewCommit(IF d.ok THEN "jump" ELSE "jump ignored", filePath,
                        TrackerState,
                        IF d.ok /\ CanRender
                        THEN renderReader(StoreState, filePath)
                        ELSE StoreState,
                        FALSE)
          /\ mounted' = (mounted \/ (d.ok /\ CanRender))
    /\ viewOps' = viewOps + 1
    /\ UNCHANGED <<filePath, backlinkVars, viewOpen, fileContent,
                   viewIsActiveLeaf, refreshTimer, refreshTimeouts, refreshSeq,
                   backlinksDirty, highlightsKey, afterClose>>

\* The reader reports user activity: onUserActivity.
UserActivity ==
    /\ viewOpen
    /\ mounted
    /\ viewOps < MaxViewOps
    /\ ViewCommit("recordActivity", filePath, recordActivity(TrackerState),
                  StoreState, FALSE)
    /\ viewOps' = viewOps + 1
    /\ UNCHANGED <<filePath, backlinkVars, viewOpen, fileContent,
                   viewIsActiveLeaf, refreshTimer, refreshTimeouts, refreshSeq,
                   backlinksDirty, highlightsKey, mounted, afterClose>>

\* The interval of the tracker fires.
ViewTick(id) ==
    /\ id \in timers
    /\ viewOps < MaxViewOps
    /\ \E tr \in {tick(TrackerState)} :
          ViewCommit("tick", filePath, tr,
                     applyFlushes(StoreState, tr.calls, 1), FALSE)
    /\ viewOps' = viewOps + 1
    /\ afterClose' = IF viewOpen THEN afterClose
                     ELSE [afterClose EXCEPT !.ticks = @ + 1]
    /\ UNCHANGED <<filePath, backlinkVars, viewOpen, fileContent,
                   viewIsActiveLeaf, refreshTimer, refreshTimeouts, refreshSeq,
                   backlinksDirty, highlightsKey, mounted>>

\* metadataCache "changed" for a markdown file.
MetadataChanged ==
    /\ viewOpen
    /\ filePath # NoPath
    /\ ~backlinksDirty
    /\ backlinksDirty' = TRUE
    /\ vop' = [vop EXCEPT !.name = "changed", !.path = filePath]
    /\ UNCHANGED <<trackerVars, storeVars, saveVars, backlinkVars, codecVars,
                   viewOpen, fileContent, viewIsActiveLeaf, refreshTimer,
                   refreshTimeouts, refreshSeq, highlightsKey, mounted,
                   viewOps, afterClose>>

\* metadataCache "resolved": scheduleBacklinkRefresh().
MetadataResolved ==
    /\ viewOpen
    /\ filePath # NoPath
    /\ backlinksDirty
    /\ viewOps < MaxViewOps
    /\ backlinksDirty' = FALSE
    /\ refreshSeq' = refreshSeq + 1
    /\ refreshTimer' = refreshSeq + 1
    /\ refreshTimeouts' =
          {t \in refreshTimeouts : t.id # refreshTimer}
          \cup {[id |-> refreshSeq + 1, due |-> now + backlinkDebounceMs]}
    /\ vop' = [vop EXCEPT !.name = "resolved", !.path = filePath]
    /\ viewOps' = viewOps + 1
    /\ UNCHANGED <<trackerVars, storeVars, saveVars, backlinkVars, codecVars,
                   viewOpen, fileContent, viewIsActiveLeaf, highlightsKey,
                   mounted, afterClose>>

\* onunload() that also clears the timeout of scheduleBacklinkRefresh.
discardRefresh_cleared(pending, timer) == {t \in pending : t.id # timer}

\* onunload(): the pending timeouts of the view after it.
discardRefresh(pending, timer) == pending

\* The view is closed: onunload().  Whether the host then leaves this.file
\* or sets it to null is the host's.
OnUnload(fileAfter) ==
    /\ viewOpen
    /\ fileAfter \in {filePath, NoPath}
    /\ \E tr \in {stop(TrackerState)} :
          ViewCommit("onunload", filePath, tr,
                     applyFlushes(StoreState, tr.calls, 1), FALSE)
    /\ viewOpen' = FALSE
    /\ mounted' = FALSE
    /\ filePath' = fileAfter
    /\ refreshTimeouts' = discardRefresh(refreshTimeouts, refreshTimer)
    /\ UNCHANGED <<backlinkVars, fileContent, viewIsActiveLeaf, refreshTimer,
                   refreshSeq, backlinksDirty, highlightsKey, viewOps,
                   afterClose>>

\* The callback of scheduleBacklinkRefresh runs.
FireRefreshTimer(id) ==
    /\ \E t \in refreshTimeouts : t.id = id /\ t.due <= now
    /\ refreshTimeouts' = {t \in refreshTimeouts : t.id # id}
    /\ \E r \in {getHighlightsForBook(mgr, filePath, DefaultLimit)} :
       LET called == filePath # NoPath
           changed == called /\ getHighlightsKey(r.ret.items) # highlightsKey
           rendered == changed /\ CanRender
       IN /\ mgr' = IF called THEN r.mgr ELSE mgr
          /\ arraySeq' = IF called THEN r.arrays ELSE arraySeq
          /\ highlightsKey' = IF changed THEN getHighlightsKey(r.ret.items)
                              ELSE highlightsKey
          /\ mounted' = (mounted \/ rendered)
          /\ ViewCommit("refresh", filePath, TrackerState,
                        IF rendered THEN renderReader(StoreState, filePath)
                        ELSE StoreState,
                        FALSE)
          /\ afterClose' =
                IF viewOpen THEN afterClose
                ELSE [afterClose EXCEPT
                        !.callbacks = @ + 1,
                        !.resolverCalls = IF called THEN @ + 1 ELSE @,
                        !.renders = IF rendered THEN @ + 1 ELSE @]
    /\ UNCHANGED <<filePath, notes, mclock, hostApi, blOps, hop, viewOpen,
                   fileContent, viewIsActiveLeaf, refreshTimer, refreshSeq,
                   backlinksDirty, viewOps>>

ViewInit ==
    /\ viewOpen = TRUE
    /\ fileContent = FALSE
    /\ viewIsActiveLeaf = FALSE
    /\ refreshTimer = 0
    /\ refreshTimeouts = {}
    /\ refreshSeq = 0
    /\ backlinksDirty = FALSE
    /\ highlightsKey = NullKey
    /\ mounted = FALSE
    /\ viewOps = 0
    /\ vop = [ name |-> "init", path |-> NoPath, activitySinceLoad |-> FALSE,
               accruedFor |-> {} ]
    /\ afterClose = [ticks |-> 0, callbacks |-> 0, resolverCalls |-> 0,
                     renders |-> 0]

\* A vault whose first note was written with a link to a book and is not
\* indexed yet.
PendingVault ==
    /\ hostApi = TRUE
    /\ notes = [n \in NoteIds |->
                  [mtime |-> 0,
                   file |-> IF n = 1
                            THEN FileCache(<<WikiItem(BookA, TokB, Absent)>>,
                                           <<>>)
                            ELSE FileCache(<<>>, <<>>),
                   cache |-> FileCache(<<>>, <<>>)]]

ViewNext ==
    \/ \E p \in ViewPaths, a \in BOOLEAN : OnLoadFile(p, a)
    \/ \E p \in ViewPaths : OnLoadFileFails(p)
    \/ \E v \in {"140"} : SaveSettings(v)
    \/ \E t \in JumpTokens : Jump(t)
    \/ UserActivity
    \/ \E id \in 1..MaxTimers : ViewTick(id)
    \/ MetadataChanged
    \/ MetadataResolved
    \/ \E f \in OpenFiles : OnUnload(f)
    \/ \E id \in 1..refreshSeq : FireRefreshTimer(id)
    \/ \E d \in ViewSteps : advances < MaxViewAdvances /\ Advance(d)
    \/ \E n \in NoteIds : IndexNote(n)

Init ==
    /\ TrackerInit /\ StoreInit /\ SaveInit /\ ManagerInit /\ EmptyVault
    /\ CodecIdle /\ ViewInit
InitVault ==
    /\ TrackerInit /\ StoreInit /\ SaveInit /\ ManagerInit /\ AnyVault
    /\ CodecIdle /\ ViewInit
InitView ==
    /\ TrackerInit /\ StoreInit /\ SaveInit /\ ManagerInit /\ PendingVault
    /\ CodecIdle /\ ViewInit
InitCodec ==
    /\ TrackerInit /\ StoreInit /\ SaveInit /\ ManagerInit /\ EmptyVault
    /\ CodecInputs /\ ViewInit

SpecTracker == Init /\ [][TrackerNext]_vars

SpecStore == Init /\ [][StoreNext]_vars
SpecSave == Init /\ [][SaveNext]_vars
SpecBacklinks == InitVault /\ [][BacklinkNext]_vars
SpecCodec == InitCodec /\ [][CodecNext]_vars
SpecView == InitView /\ [][ViewNext]_vars

\* The window runs due timeouts, and time passes.
SpecSaveFair ==
    SpecSave /\ WF_vars(SaveTimerNext) /\ WF_vars(SaveClockNext)

----------------------------------------------------------------------------
(* Properties of the tracker *)

\* The fields of the tracker object.
trackerFields == <<readTimer, readTimePendingMs, lastTickAt, isActiveLeaf,
                   lastActivityAt>>

RECURSIVE SumCalls(_)
SumCalls(calls) ==
    IF calls = <<>> THEN 0 ELSE Head(calls)[1] + SumCalls(Tail(calls))

\* C1: as long as recordActivity() was never called, nothing is pending and
\* the last operation, whichever it was, made no onFlush call.
C1_NoAccrualWithoutActivity ==
    ~activityEver => readTimePendingMs = 0 /\ onFlushCalls = <<>>

C1_Witness ==
    /\ ~activityEver
    /\ op.name = "tick"
    /\ op.gap > 0
    /\ isActiveLeaf
    /\ filePath # NoPath

\* C2: the time a tick accrues (what it adds to the pending time, counting
\* what it flushed in the same step) is at most maxTickMs, and a tick that
\* sees a gap of maxTickMs or more accrues exactly maxTickMs or nothing.
C2_TickCapped ==
    [][op'.name = "tick" =>
        LET accrued == readTimePendingMs' + SumCalls(onFlushCalls')
                       - readTimePendingMs
        IN /\ accrued <= maxTickMs
           /\ accrued >= 0
           /\ (lastTickAt # 0 /\ now - lastTickAt >= maxTickMs)
                 => accrued \in {0, maxTickMs}]_vars

C2_Witness ==
    /\ op.name = "tick"
    /\ op.gap = 50000
    /\ op.before > 0
    /\ onFlushCalls = << <<op.before + 5000, filePath>> >>

\* C3: flush() calls onFlush(pendingMs, path) and zeroes pendingMs exactly when
\* a path exists and pendingMs > 0, and otherwise changes nothing; no
\* operation ever calls onFlush with a null path or a delta <= 0.
C3_FlushContract ==
    [][/\ op'.name = "flush" =>
            IF filePath # NoPath /\ readTimePendingMs > 0
            THEN /\ onFlushCalls' = << <<readTimePendingMs, filePath>> >>
                 /\ readTimePendingMs' = 0
                 /\ UNCHANGED <<readTimer, timers, lastTickAt, isActiveLeaf,
                                lastActivityAt>>
            ELSE /\ onFlushCalls' = <<>>
                 /\ UNCHANGED <<trackerFields, timers>>
       /\ \A i \in DOMAIN onFlushCalls' :
            onFlushCalls'[i][2] # NoPath /\ onFlushCalls'[i][1] > 0]_vars

C3_Witness ==
    /\ op.name = "flush"
    /\ op.before > 0
    /\ onFlushCalls = << <<op.before, filePath>> >>

\* C4 as stated: stop() leaves no timer and nothing pending, and whatever was
\* pending before the call was passed to onFlush.
C4_StopDeliversAll ==
    [][op'.name = "stop" =>
        /\ timers' = {} /\ readTimer' = 0 /\ readTimePendingMs' = 0
        /\ readTimePendingMs > 0 =>
              \E i \in DOMAIN onFlushCalls' :
                  onFlushCalls'[i][1] = readTimePendingMs]_vars

\* C4 amended: stop() leaves no timer and nothing pending; what was pending is
\* passed to onFlush when getFilePath() returns a path, and is discarded
\* without a call when it returns null.
C4_StopFlushesWhenPath ==
    [][op'.name = "stop" =>
        /\ timers' = {} /\ readTimer' = 0 /\ readTimePendingMs' = 0
        /\ onFlushCalls' =
              IF readTimePendingMs > 0 /\ filePath # NoPath
              THEN << <<readTimePendingMs, filePath>> >>
              ELSE <<>>]_vars

C4_Witness ==
    /\ op.name = "stop"
    /\ op.before > 0
    /\ op.timer # 0
    /\ onFlushCalls = << <<op.before, filePath>> >>

\* C5: at most one interval timer is live, none is live while the tracker is
\* stopped, and a tick handler only runs for the timer the tracker holds.
C5_SingleTimerNoTickAfterStop ==
    /\ Cardinality(timers) <= 1
    /\ readTimer = 0 => timers = {}
    /\ op.name = "tick" => readTimer # 0 /\ op.timer = readTimer

C5_Witness ==
    /\ op.name = "start"
    /\ op.timer # 0
    /\ timers = {readTimer}

\* C6: setActiveLeaf(false) on an active tracker flushes in the same step
\* (the whole pending amount, when there is one and a path exists) and sets
\* lastTickAt to now; setActiveLeaf(v) with v the current value changes no
\* field and calls nothing.
C6_SetActiveLeaf ==
    [][op'.name = "setActiveLeaf" =>
        /\ (isActiveLeaf /\ ~op'.active) =>
              /\ ~isActiveLeaf'
              /\ lastTickAt' = now
              /\ IF readTimePendingMs > 0 /\ filePath # NoPath
                 THEN /\ onFlushCalls' = << <<readTimePendingMs, filePath>> >>
                      /\ readTimePendingMs' = 0
                 ELSE /\ onFlushCalls' = <<>>
                      /\ UNCHANGED readTimePendingMs
        /\ op'.active = isActiveLeaf =>
              /\ UNCHANGED <<trackerFields, timers>>
              /\ onFlushCalls' = <<>>]_vars

C6_Witness ==
    /\ op.name = "setActiveLeaf"
    /\ ~op.active
    /\ ~isActiveLeaf
    /\ op.before > 0
    /\ onFlushCalls = << <<op.before, filePath>> >>

----------------------------------------------------------------------------
(* Properties of the store *)

\* A folder path as renameProgress turns it into a key prefix.
FolderPrefix(path) ==
    LET key == normalizeProgressKey(path)
    IN IF endsWith(key, "/") THEN key ELSE key \o <<"/">>

\* The keys of m under the folder prefix, and where the rename sends them.
SourceKeys(m, oldPrefix) == {k \in KeysOf(m) : startsWith(k, oldPrefix)}
DestKey(k, oldPrefix, newPrefix) == newPrefix \o slice(k, Len(oldPrefix))
DestKeys(m, oldPrefix, newPrefix) ==
    {DestKey(k, oldPrefix, newPrefix) : k \in SourceKeys(m, oldPrefix)}

\* What getReadingStats reports as the read time of a key.
TotalOf(m, key) ==
    IF HasKey(m, key) /\ Lookup(m, key).totalReadTimeMs \notin {Null, Undefined}
    THEN Lookup(m, key).totalReadTimeMs
    ELSE 0

\* C7: addReadingTime with a NaN, infinite, zero or negative delta leaves
\* settings and progress as they were and signals no save; with a finite
\* positive delta it adds exactly the delta to the path's read time, stamps
\* lastReadAt with the current time and signals a save.
C7_AddReadingTime ==
    [][sop'.name = "addReadingTime" =>
        LET d == sop'.deltaMs
            key == normalizeProgressKey(sop'.path)
        IN IF d.kind = "finite" /\ d.v > 0
           THEN /\ HasKey(progress', key)
                /\ Lookup(progress', key).totalReadTimeMs
                      = TotalOf(progress, key) + d.v
                /\ Lookup(progress', key).lastReadAt = now
                /\ saves' >= 1
           ELSE /\ progress' = progress
                /\ settings' = settings
                /\ saves' = 0]_vars

C7_Witness ==
    /\ sop.name = "addReadingTime"
    /\ sop.deltaMs = [kind |-> "finite", v |-> -1500]
    /\ ~HasKey(progress, normalizeProgressKey(sop.path))
    /\ progress = sop.before
    /\ progress # <<>>
    /\ saves = 0

\* C8: after renameProgress(a, b, false), from any store state and for any
\* a, b, a second renameProgress(a, b, false) changes nothing; and
\* renameProgress (either form) with no entry at a (or under a + "/") leaves
\* the store as it was, without a save signal.
C8_RenameIdempotent ==
    [][sop'.name = "renameProgress" =>
        LET a == sop'.path
            b == sop'.path2
            after == [StoreState EXCEPT !.settings = settings',
                                        !.progress = progress']
        IN /\ ~sop'.isFolder =>
                /\ renameProgress(after, a, b, FALSE) = after
                /\ ~HasKey(progress, normalizeProgressKey(a)) =>
                      /\ progress' = progress
                      /\ settings' = settings
                      /\ saves' = 0
           /\ (sop'.isFolder /\ SourceKeys(progress, FolderPrefix(a)) = {}) =>
                /\ progress' = progress
                /\ settings' = settings
                /\ saves' = 0]_vars

C8_Witness ==
    /\ sop.name = "renameProgress"
    /\ ~sop.isFolder
    /\ HasKey(sop.before, normalizeProgressKey(sop.path))
    /\ ~HasKey(sop.before, normalizeProgressKey(sop.path2))
    /\ HasKey(progress, normalizeProgressKey(sop.path2))
    /\ ~HasKey(progress, normalizeProgressKey(sop.path))
    /\ Len(progress) > 1

\* C9 as stated: the folder form puts every entry under old + "/" at new +
\* "/" + suffix with its fields unchanged, and leaves no entry under old + "/".
C9_FolderRenameMovesAll ==
    [][(sop'.name = "renameProgress" /\ sop'.isFolder) =>
        LET oldPrefix == FolderPrefix(sop'.path)
            newPrefix == FolderPrefix(sop'.path2)
        IN /\ \A k \in SourceKeys(progress, oldPrefix) :
                LET moved == DestKey(k, oldPrefix, newPrefix)
                IN /\ HasKey(progress', moved)
                   /\ Lookup(progress', moved) = Lookup(progress, k)
           /\ SourceKeys(progress', oldPrefix) = {}]_vars

\* C9 amended: the folder form puts every entry under old + "/" whose
\* destination key new + "/" + suffix held no entry at that destination, at
\* any depth and with its fields unchanged; afterwards the only keys under
\* old + "/" are destination keys, so none remains unless a destination lies
\* under old + "/" itself.
C9_FolderRenameMovesFree ==
    [][(sop'.name = "renameProgress" /\ sop'.isFolder) =>
        LET oldPrefix == FolderPrefix(sop'.path)
            newPrefix == FolderPrefix(sop'.path2)
        IN /\ \A k \in SourceKeys(progress, oldPrefix) :
                LET moved == DestKey(k, oldPrefix, newPrefix)
                IN ~HasKey(progress, moved) =>
                      /\ HasKey(progress', moved)
                      /\ Lookup(progress', moved) = Lookup(progress, k)
           /\ SourceKeys(progress', oldPrefix)
                 \subseteq DestKeys(progress, oldPrefix, newPrefix)
           /\ (\A d \in DestKeys(progress, oldPrefix, newPrefix) :
                   ~startsWith(d, oldPrefix))
                 => SourceKeys(progress', oldPrefix) = {}]_vars

C9_Witness ==
    /\ sop.name = "renameProgress"
    /\ sop.isFolder
    /\ normalizeProgressKey(sop.path) = FolderF
    /\ normalizeProgressKey(sop.path2) = FolderM
    /\ KeysOf(sop.before) = {FileFA, FileFSA}
    /\ KeysOf(progress) = {FileMA, <<"M", "/", "S", "/", "a">>}
    /\ Lookup(progress, FileMA) = Lookup(sop.before, FileFA)
    /\ Lookup(progress, <<"M", "/", "S", "/", "a">>)
          = Lookup(sop.before, FileFSA)

\* C10 as stated: in both forms, a destination key that already has an entry
\* keeps that entry and the source key is removed.
C10_CollisionKeepsDestination ==
    [][sop'.name = "renameProgress" =>
        IF sop'.isFolder
        THEN LET oldPrefix == FolderPrefix(sop'.path)
                 newPrefix == FolderPrefix(sop'.path2)
             IN \A k \in SourceKeys(progress, oldPrefix) :
                  LET d == DestKey(k, oldPrefix, newPrefix)
                  IN HasKey(progress, d) =>
                        /\ HasKey(progress', d)
                        /\ Lookup(progress', d) = Lookup(progress, d)
                        /\ ~HasKey(progress', k)
        ELSE LET k == normalizeProgressKey(sop'.path)
                 d == normalizeProgressKey(sop'.path2)
             IN (HasKey(progress, k) /\ HasKey(progress, d)) =>
                   /\ HasKey(progress', d)
                   /\ Lookup(progress', d) = Lookup(progress, d)
                   /\ ~HasKey(progress', k)]_vars

\* C10 amended: in both forms, a destination key that already has an entry
\* keeps that entry and the source key is removed, provided neither key is
\* both a renamed key and a destination of the same call (file form: old and
\* new are different keys).
C10_CollisionKeepsOtherDestination ==
    [][sop'.name = "renameProgress" =>
        IF sop'.isFolder
        THEN LET oldPrefix == FolderPrefix(sop'.path)
                 newPrefix == FolderPrefix(sop'.path2)
                 sources == SourceKeys(progress, oldPrefix)
                 dests == DestKeys(progress, oldPrefix, newPrefix)
             IN \A k \in sources :
                  LET d == DestKey(k, oldPrefix, newPrefix)
                  IN (HasKey(progress, d) /\ d \notin sources
                        /\ k \notin dests) =>
                        /\ HasKey(progress', d)
                        /\ Lookup(progress', d) = Lookup(progress, d)
                        /\ ~HasKey(progress', k)
        ELSE LET k == normalizeProgressKey(sop'.path)
                 d == normalizeProgressKey(sop'.path2)
             IN (HasKey(progress, k) /\ HasKey(progress, d) /\ k # d) =>
                   /\ HasKey(progress', d)
                   /\ Lookup(progress', d) = Lookup(progress, d)
                   /\ ~HasKey(progress', k)]_vars

C10_Witness ==
    /\ sop.name = "renameProgress"
    /\ sop.isFolder
    /\ normalizeProgressKey(sop.path) = FolderF
    /\ normalizeProgressKey(sop.path2) = FolderM
    /\ HasKey(sop.before, FileFA)
    /\ HasKey(sop.before, FileMA)
    /\ Lookup(sop.before, FileFA) # Lookup(sop.before, FileMA)
    /\ Lookup(progress, FileMA) = Lookup(sop.before, FileMA)
    /\ ~HasKey(progress, FileFA)


----------------------------------------------------------------------------
(* Properties of the store's queries, load and save requests *)

\* The store after the step, for the queries of an action property.
StoreAfter == [StoreState EXCEPT !.settings = settings', !.progress = progress']

Listed(st, key) ==
    \E i \in DOMAIN listReadingStats(st) : listReadingStats(st)[i].path = key

ZeroStats ==
    [ totalReadTimeMs |-> 0, sessionCount |-> 0,
      lastOpenedAt |-> Null, lastReadAt |-> Null ]

\* An entry with default values only: no time, no sessions, no timestamps,
\* progress never updated.
DefaultOnly(entry) ==
    /\ StatsOf(entry) = ZeroStats
    /\ Coalesce(entry.updatedAt, 0) = 0

\* An entry only setProgress has touched: a location and its update time,
\* and the statistics of a new entry.
ProgressOnly(entry) ==
    /\ StatsOf(entry) = ZeroStats
    /\ Coalesce(entry.updatedAt, 0) > 0

\* C11: listReadingStats() leaves out every entry that holds default values
\* only and returns every entry with sessionCount >= 1, with its statistics.
C11_StatsFilter ==
    \A i \in DOMAIN progress :
        /\ DefaultOnly(progress[i].v) => ~Listed(StoreState, progress[i].k)
        /\ Coalesce(progress[i].v.sessionCount, 0) >= 1 =>
              \E j \in DOMAIN listReadingStats(StoreState) :
                  listReadingStats(StoreState)[j] =
                      [path |-> progress[i].k, stats |-> StatsOf(progress[i].v)]

C11_Witness ==
    /\ sop.name = "getReadingStats"
    /\ ~HasKey(sop.before, normalizeProgressKey(sop.path))
    /\ DefaultOnly(Lookup(progress, normalizeProgressKey(sop.path)))
    /\ \E i \in DOMAIN progress : progress[i].v.sessionCount = 1
    /\ Len(listReadingStats(StoreState)) < Len(progress)

\* C12 as stated: an entry only setProgress has touched is left out of
\* listReadingStats().
C12_ProgressOnlyExcluded ==
    \A i \in DOMAIN progress :
        ProgressOnly(progress[i].v) => ~Listed(StoreState, progress[i].k)

\* C12: an entry only setProgress has touched is returned by
\* listReadingStats(), because its updatedAt is positive, with statistics
\* {0, 0, null, null}.
C12_ProgressOnlyIncluded ==
    \A i \in DOMAIN progress :
        ProgressOnly(progress[i].v) =>
            \E j \in DOMAIN listReadingStats(StoreState) :
                listReadingStats(StoreState)[j] =
                    [path |-> progress[i].k, stats |-> ZeroStats]

C12_Witness ==
    /\ sop.name = "setProgress"
    /\ ~HasKey(sop.before, normalizeProgressKey(sop.path))
    /\ ProgressOnly(Lookup(progress, normalizeProgressKey(sop.path)))
    /\ Lookup(progress, normalizeProgressKey(sop.path)).updatedAt = now
    /\ Listed(StoreState, normalizeProgressKey(sop.path))

\* The settings fields a raw document brings: those of its settings object
\* when it is a version-1 document, its own fields when it is any other
\* object, none otherwise.
InputSettings(raw) ==
    IF ~raw.object THEN <<>>
    ELSE IF raw.version = "1"
         THEN (IF raw.hasSettings THEN raw.settings ELSE <<>>)
         ELSE raw.props

\* C13: after load(raw), getSettings() has every option of DEFAULT_SETTINGS:
\* the input's value where the input has the option, the default otherwise.
C13_SettingsComplete ==
    [][sop'.name = "load" =>
        \A k \in DOMAIN DEFAULT_SETTINGS :
            /\ k \in DOMAIN getSettings(StoreAfter)
            /\ getSettings(StoreAfter)[k] =
                  IF k \in DOMAIN InputSettings(sop'.raw)
                  THEN InputSettings(sop'.raw)[k]
                  ELSE DEFAULT_SETTINGS[k]]_vars

C13_Witness ==
    /\ sop.name = "load"
    /\ sop.raw.version = "1"
    /\ sop.raw.hasSettings
    /\ DOMAIN sop.raw.settings # DOMAIN DEFAULT_SETTINGS
    /\ settings.fontSizePercent = "120"
    /\ settings.fontSizePercent # DEFAULT_SETTINGS.fontSizePercent
    /\ settings.tags = DEFAULT_SETTINGS.tags

\* C14: load() of a document whose version is not 1 gives an empty progress
\* map and the defaults overlaid with every field of the input; load() of a
\* version-1 document takes its progress map as it is, or an empty one;
\* exportData() reports version 1, and loading what it returns gives the
\* same settings and progress.
C14_LoadAndExport ==
    [][/\ (sop'.name = "load" /\ sop'.raw.version # "1") =>
              /\ progress' = <<>>
              /\ DOMAIN settings' =
                    DOMAIN DEFAULT_SETTINGS \cup DOMAIN InputSettings(sop'.raw)
              /\ \A k \in DOMAIN InputSettings(sop'.raw) :
                    settings'[k] = InputSettings(sop'.raw)[k]
              /\ \A k \in DOMAIN DEFAULT_SETTINGS \ DOMAIN InputSettings(sop'.raw) :
                    settings'[k] = DEFAULT_SETTINGS[k]
       /\ (sop'.name = "load" /\ sop'.raw.object /\ sop'.raw.version = "1") =>
              progress' = IF sop'.raw.hasProgress THEN sop'.raw.progress
                          ELSE <<>>
       /\ exportData(StoreAfter).version = "1"
       /\ load(StoreState, exportData(StoreAfter)).settings = settings'
       /\ load(StoreState, exportData(StoreAfter)).progress = progress'
      ]_vars

C14_Witness ==
    /\ sop.name = "load"
    /\ sop.raw.object
    /\ sop.raw.version = "2"
    /\ sop.before # <<>>
    /\ progress = <<>>
    /\ settings.version = "2"
    /\ settings.tags = "t"
    /\ settings.notePath = DEFAULT_SETTINGS.notePath

\* C15 as stated: every call that changes the document exportData() returns
\* requests a save during the call.
C15_EveryChangeSaves ==
    [][(settings' # settings \/ progress' # progress) => saves' >= 1]_vars

\* C15: setSettings (unless its scheduleSave argument is false), setProgress
\* and recordReadingSession request a save, and so do addReadingTime and
\* renameProgress whenever they change the document; the calls that change
\* the document without a save request are load, setSettings with a false
\* scheduleSave argument, and getReadingStats when it creates or completes
\* an entry.
C15_MutatorsSave ==
    [][/\ sop'.name \in {"setProgress", "recordReadingSession"} => saves' >= 1
       /\ sop'.name = "setSettings" => (saves' >= 1 <=> sop'.signal)
       /\ (/\ sop'.name \in {"addReadingTime", "renameProgress"}
           /\ progress' # progress) => saves' >= 1
       /\ ((settings' # settings \/ progress' # progress) /\ saves' = 0) =>
              \/ sop'.name \in {"load", "getReadingStats"}
              \/ sop'.name = "setSettings" /\ ~sop'.signal
      ]_vars

C15_Witness ==
    /\ sop.name = "recordReadingSession"
    /\ progress # sop.before
    /\ HasKey(sop.before, normalizeProgressKey(sop.path))
    /\ saves = 1

\* C16: getProgress is null for a path with no recorded location;
\* getReadingStats on an unseen path returns {0, 0, null, null} and leaves
\* getProgress of that path and listReadingStats() as they were; and the
\* record that getReadingStats, recordReadingSession or addReadingTime
\* creates does not turn a null getProgress into a non-null one.
C16_LazyCreationKeepsLocationAbsent ==
    [][/\ \A p \in BookPaths :
              ~HasKey(progress, normalizeProgressKey(p)) =>
                  getProgress(StoreState, p) = Null
       /\ (/\ sop'.name = "getReadingStats"
           /\ ~HasKey(progress, normalizeProgressKey(sop'.path))) =>
              /\ getReadingStatsResult(StoreState, sop'.path) = ZeroStats
              /\ getProgress(StoreAfter, sop'.path)
                    = getProgress(StoreState, sop'.path)
              /\ listReadingStats(StoreAfter) = listReadingStats(StoreState)
       /\ (/\ sop'.name \in {"getReadingStats", "recordReadingSession",
                            "addReadingTime"}
           /\ getProgress(StoreState, sop'.path) = Null) =>
              getProgress(StoreAfter, sop'.path) = Null
      ]_vars

\* The parts of C16 that hold: the null result for an absent entry, the
\* zero statistics, and the unchanged listReadingStats().
C16_StatsQueryFrame ==
    [][/\ \A p \in BookPaths :
              ~HasKey(progress, normalizeProgressKey(p)) =>
                  getProgress(StoreState, p) = Null
       /\ (/\ sop'.name = "getReadingStats"
           /\ ~HasKey(progress, normalizeProgressKey(sop'.path))) =>
              /\ getReadingStatsResult(StoreState, sop'.path) = ZeroStats
              /\ listReadingStats(StoreAfter) = listReadingStats(StoreState)
              /\ getProgress(StoreAfter, sop'.path) = 0
      ]_vars

----------------------------------------------------------------------------
(* Properties of the save scheduler *)

SavePending == saveTimer # 0

SaveWritten ==
    /\ saveTimer = 0
    /\ saveData.timerWrites >= 1
    /\ saveData.timerWrites = saveHist.bursts

\* C17: at most one save timer is pending, the one requestSave set last,
\* due saveMinDelayMs after the last request; every burst of requests, each
\* less than saveMinDelayMs after the one before, gets exactly one write by
\* the timer, made saveMinDelayMs after the last request of the burst, of
\* the document as the last request left its progress; and a pending save
\* is written in the end.
C17_SaveScheduler ==
    /\ [](/\ Cardinality(timeouts) <= 1
          /\ SavePending =>
                timeouts = {[id |-> saveTimer,
                             due |-> saveHist.lastRequestAt + saveMinDelayMs]}
          /\ ~SavePending => timeouts = {}
          /\ saveData.timerWrites =
                saveHist.bursts - (IF SavePending THEN 1 ELSE 0))
    /\ [][saveData'.timerWrites # saveData.timerWrites =>
            /\ saveData'.timerWrites = saveData.timerWrites + 1
            /\ saveData'.at = saveHist.lastRequestAt + saveMinDelayMs
            /\ saveData'.doc = exportData(StoreState)
            /\ saveData'.doc.progress = saveHist.requestDoc.progress]_vars
    /\ (SavePending ~> SaveWritten)

C17_Witness ==
    /\ saveHist.bursts = 1
    /\ saveHist.burstRequests = 3
    /\ saveHist.lastRequestAt > Epoch
    /\ saveData.by = "timer"
    /\ saveData.timerWrites = 1
    /\ saveData.at = saveHist.lastRequestAt + saveMinDelayMs
    /\ Len(saveData.doc.progress) >= 2
    /\ saveTimer = 0

----------------------------------------------------------------------------
(* Properties of the backlink resolver *)

Resolved == hop'.name = "getHighlightsForBook" /\ blOps' # blOps

\* A pass: a call that did not return the cached results.
FreshPass == Resolved /\ ~hop'.hit

\* The tokens the indexed links of a note gave for the book of the call h,
\* and those of all its candidates.
TokensOf(h, n) == {h.found[n][k] : k \in DOMAIN h.found[n]}

CandidateSet(h) == {h.candidates[i] : i \in DOMAIN h.candidates}

AllTokens(h) == UNION {TokensOf(h, n) : n \in CandidateSet(h)}

Decodable(t) == base64UrlDecode(t).ok
LocationOf(t) == base64UrlDecode(t).value

\* The first candidate, in the order of the pass, that holds the token.
FirstSource(h, t) ==
    CHOOSE n \in CandidateSet(h) :
        /\ t \in TokensOf(h, n)
        /\ \A m \in CandidateSet(h) : t \in TokensOf(h, m) => n <= m

\* The entries of a result for a location from a note.
EntriesOf(items, n, location) ==
    {k \in DOMAIN items : /\ items[k].sourceFile = NotePath(n)
                          /\ items[k].cfiRange = location}

NoDuplicates(seq) ==
    \A i, j \in DOMAIN seq : seq[i] = seq[j] => i = j

\* C18: a call for the book of the call before it, with the same candidates
\* and modification times as then, returns the array that call returned,
\* the same object, and reads no file cache and decodes no token.
C18_CacheReuse ==
    [][(/\ Resolved
        /\ hop'.prev.book = hop'.book
        /\ hop'.prev.key.count = hop'.key.count
        /\ hop'.prev.key.parts = hop'.key.parts) =>
            /\ hop'.ret.id = hop'.prev.ret.id
            /\ hop'.ret = hop'.prev.ret
            /\ hop'.read = <<>>
            /\ hop'.decoded = <<>>
            /\ arraySeq' = arraySeq]_vars

C18_Witness ==
    /\ hop.name = "getHighlightsForBook"
    /\ hop.prev.book = hop.book
    /\ hop.prev.key = hop.key
    /\ hop.key.count = 2
    /\ hop.ret.id = hop.prev.ret.id
    /\ hop.ret.id >= 1
    /\ Len(hop.ret.items) >= 1
    /\ hop.read = <<>>

\* C19 as stated: in a pass that stops short of the limit, candidate notes
\* that link to the same decoded location each get an entry for that
\* location.
C19_EntryPerNote ==
    [][(FreshPass /\ Len(hop'.ret.items) < hop'.limit) =>
          \A n1, n2 \in CandidateSet(hop') :
          \A t1 \in TokensOf(hop', n1), t2 \in TokensOf(hop', n2) :
              (/\ n1 # n2
               /\ Decodable(t1) /\ Decodable(t2)
               /\ LocationOf(t1) = LocationOf(t2)) =>
                  /\ EntriesOf(hop'.ret.items, n1, LocationOf(t1)) # {}
                  /\ EntriesOf(hop'.ret.items, n2, LocationOf(t1)) # {}]_vars

\* C19: in a pass that stops short of the limit, each decodable token gives
\* one entry, for the first candidate note that holds it: two notes get
\* separate entries for one decoded location when their tokens differ, a
\* token that two notes share gives an entry for the first of them only, and
\* two identical tokens inside one note give one entry.
C19_EntryPerToken ==
    [][(FreshPass /\ Len(hop'.ret.items) < hop'.limit) =>
          \A n \in CandidateSet(hop') :
          \A t \in AllTokens(hop') :
              Decodable(t) =>
                  Cardinality(EntriesOf(hop'.ret.items, n, LocationOf(t))) =
                  Cardinality({u \in AllTokens(hop') :
                                  /\ Decodable(u)
                                  /\ LocationOf(u) = LocationOf(t)
                                  /\ FirstSource(hop', u) = n})]_vars

C19_Witness ==
    /\ hop.name = "getHighlightsForBook"
    /\ ~hop.hit
    /\ hop.limit = DefaultLimit
    /\ hop.read = <<1, 2>>
    /\ Len(hop.found[1]) = 4
    /\ TokensOf(hop, 1) = {TokA}
    /\ TokensOf(hop, 2) = {TokA}
    /\ Len(hop.ret.items) = 1
    /\ hop.ret.items[1].sourceFile = NotePath(1)
    /\ hop.ret.items[1].cfiRange = <<65>>

\* C20: in a pass no token is decoded twice and no token gives two
\* highlights, in however many records, fields and notes it occurs; each
\* highlight is the decoding of its token; and a pass that stops short of
\* the limit decodes every token of the candidates once.
C20_GlobalDedup ==
    [][FreshPass =>
          /\ NoDuplicates(hop'.decoded)
          /\ NoDuplicates(hop'.pushed)
          /\ Len(hop'.pushed) = Len(hop'.ret.items)
          /\ \A k \in DOMAIN hop'.pushed :
                /\ Decodable(hop'.pushed[k])
                /\ hop'.ret.items[k].cfiRange = LocationOf(hop'.pushed[k])
                /\ \E j \in DOMAIN hop'.decoded :
                      hop'.decoded[j] = hop'.pushed[k]
          /\ \A j \in DOMAIN hop'.decoded :
                hop'.decoded[j] \in AllTokens(hop')
          /\ Len(hop'.ret.items) < hop'.limit =>
                {hop'.decoded[j] : j \in DOMAIN hop'.decoded}
                    = AllTokens(hop')]_vars

C20_Witness ==
    /\ hop.name = "getHighlightsForBook"
    /\ ~hop.hit
    /\ hop.read = <<1, 2>>
    /\ Len(hop.found[1]) + Len(hop.found[2]) = 6
    /\ hop.decoded = <<TokA>>
    /\ hop.pushed = <<TokA>>
    /\ Len(hop.ret.items) = 1


\* The decodable tokens of the candidates of the call h.
DecodableTokens(h) == {t \in AllTokens(h) : Decodable(t)}

\* C21 as stated: a call with limit >= 1 returns at most limit entries, and
\* all the decodable distinct tokens when there are fewer than limit, be the
\* result computed or taken from the cache.
C21_LimitRespected ==
    [][Resolved =>
          /\ Len(hop'.ret.items) <= hop'.limit
          /\ Cardinality(DecodableTokens(hop')) < hop'.limit =>
                Len(hop'.ret.items) = Cardinality(DecodableTokens(hop'))]_vars

\* The part of C21 that holds: a computed result has the first limit
\* decodable distinct tokens, all of them when there are fewer.
C21_FreshLimit ==
    [][FreshPass =>
          Len(hop'.ret.items) =
              Min(hop'.limit, Cardinality(DecodableTokens(hop')))]_vars

\* C22: a call does not throw; in a pass that stops short of the limit a
\* token that does not decode gives no highlight, and every decodable token
\* of the candidates, met before or after it, gives its highlight.
C22_MalformedDropped ==
    [][Resolved =>
          /\ ~hop'.threw
          /\ \A k \in DOMAIN hop'.pushed : Decodable(hop'.pushed[k])
          /\ (~hop'.hit /\ Len(hop'.ret.items) < hop'.limit) =>
                \A t \in DecodableTokens(hop') :
                    \E k \in DOMAIN hop'.pushed :
                        /\ hop'.pushed[k] = t
                        /\ hop'.ret.items[k].cfiRange = LocationOf(t)]_vars

C22_Witness ==
    /\ hop.name = "getHighlightsForBook"
    /\ ~hop.hit
    /\ ~hop.threw
    /\ hop.decoded = <<TokA, TokBad, TokB>>
    /\ hop.pushed = <<TokA, TokB>>
    /\ Len(hop.ret.items) = 2
    /\ hop.ret.items[2].cfiRange = <<66>>

\* C23 as stated: in a pass that stops short of the limit, every decodable
\* token of a link of the form '#cfi64=t1&cfi64=t2' gives a highlight.
C23_EveryListedToken ==
    [][(FreshPass /\ Len(hop'.ret.items) < hop'.limit) =>
          \A n \in CandidateSet(hop') :
          \A t \in hop'.listed[n] :
              Decodable(t) =>
                  \E k \in DOMAIN hop'.ret.items :
                      hop'.ret.items[k].cfiRange = LocationOf(t)]_vars

\* What the pass finds in such a link: the token after '#cfi64=' only.
C23_FirstListedTokenOnly ==
    [][FreshPass =>
          \A n \in CandidateSet(hop') :
              TokensOf(hop', n) \subseteq hop'.listed[n]]_vars

----------------------------------------------------------------------------
(* Properties of the codec and of the link parser *)

\* Are the bytes the UTF-8 form of a string of scalar values.
ValidUtf8(bytes) == textEncode(textDecode_keepsMark(bytes)) = bytes

Encoded == codec.kind = "string" /\ codec.hasTok
RoundTripped == Encoded /\ codec.res.done

\* C24 as stated: decoding the token of a string gives the string back, and
\* the token has only characters of [A-Za-z0-9_-].
C24_RoundTrip ==
    /\ Encoded => \A k \in DOMAIN codec.tok : IsTokenChar(codec.tok[k])
    /\ RoundTripped => codec.res.ok /\ codec.res.value = codec.str

\* What holds of the round trip: the token has only those characters, it
\* decodes, and to the string without its leading U+FEFF if it has one.
C24_RoundTripButMark ==
    /\ Encoded => \A k \in DOMAIN codec.tok : IsTokenChar(codec.tok[k])
    /\ RoundTripped =>
          /\ codec.res.ok
          /\ codec.res.value =
                IF codec.str # <<>> /\ codec.str[1] = ByteOrderMark
                THEN Tail(codec.str) ELSE codec.str

\* C25 as stated: base64UrlDecode fails for an input with a character outside
\* [A-Za-z0-9_-] and for an input whose decoded bytes are not valid UTF-8.
C25_DecodeFails ==
    (/\ codec.res.done
     /\ \/ \E k \in DOMAIN codec.tok : ~IsTokenChar(codec.tok[k])
        \/ ~ValidUtf8(codec.res.bytes))
    => ~codec.res.ok

\* When base64UrlDecode does fail: exactly when atob rejects the padded text.
C25_FailsWithAtob ==
    codec.res.done => (codec.res.ok <=> atob(pad(toBase64(codec.tok))).ok)

\* C26 as stated: parseEpubCfi64Link returns a {path, cfi64} or null, and
\* never throws.
C26_NeverThrows == parse.done => parse.out.kind \in {"null", "result"}

\* The text of raw before its first "#", and the text after it.
BeforeFirstHash(raw) == SubSeq(raw, 1, indexOf(raw, {"#"}, 1) - 1)
AfterFirstHash(raw) == SubSeq(raw, indexOf(raw, {"#"}, 1) + 1, Len(raw))

\* C27 as stated: there is a result exactly when the percent-decoded text
\* before the first "#" ends with .epub, whatever the case, and the text
\* after that "#" has 'cfi64=' followed by a token character; cfi64 is then
\* the longest run at the first such place and path the normalized decoded
\* path; in every other case the result is null.
C27_ResultExactlyWhen ==
    parse.done =>
        LET decoded == decodeURIComponent(BeforeFirstHash(parse.raw), 1)
            token == firstToken(AfterFirstHash(parse.raw), 1)
        IN IF /\ decoded.ok
              /\ endsWithString(toLowerCase(decoded.value), EpubExtension)
              /\ token # <<>>
           THEN parse.out = [kind |-> "result",
                             path |-> normalizePath(decoded.value),
                             cfi64 |-> token]
           ELSE parse.out = NullLink


----------------------------------------------------------------------------
(* Properties of the view *)

Closing == viewOpen /\ ~viewOpen'

\* C28 as stated: onunload stops the tracker, flushing the pending time,
\* and discards the scheduled backlink refresh; after it no tick and no
\* refresh callback of the view runs, so no resolver call and no rendering.
C28_CloseCancels ==
    [][/\ Closing =>
             /\ timers' = {}
             /\ readTimer' = 0
             /\ readTimePendingMs' = 0
             /\ (readTimePendingMs > 0 /\ filePath # NoPath) =>
                    onFlushCalls' = << <<readTimePendingMs, filePath>> >>
             /\ refreshTimeouts' = {}
       /\ ~viewOpen => afterClose' = afterClose]_vars

\* The part of C28 that holds: onunload stops the tracker and flushes the
\* pending time, and no tick runs after it.
C28_TrackerStopped ==
    [][/\ Closing =>
             /\ timers' = {}
             /\ readTimer' = 0
             /\ readTimePendingMs' = 0
             /\ (readTimePendingMs > 0 /\ filePath # NoPath) =>
                    onFlushCalls' = << <<readTimePendingMs, filePath>> >>
       /\ ~viewOpen => afterClose'.ticks = afterClose.ticks]_vars

\* A refresh callback ran after the view was closed, called the resolver and
\* rendered the reader again.
C28_RefreshAfterClose ==
    /\ ~viewOpen
    /\ afterClose.callbacks > 0
    /\ afterClose.resolverCalls > 0
    /\ afterClose.renders > 0

Opened == vop'.name = "onLoadFile" /\ viewOps' = viewOps + 1

\* C30: a book open records one reading session for the opened path: its
\* sessionCount grows by 1, lastOpenedAt is the time of the open, and a save
\* is requested; no other step of the view (rendering, a jump, a change of
\* settings, a tick, a refresh, the close) changes a sessionCount.
C30_OneSessionPerOpen ==
    [][IF Opened
       THEN /\ SessionCount(progress', vop'.path)
                  = SessionCount(progress, vop'.path) + 1
            /\ \A p \in ViewPaths \ {vop'.path} :
                  SessionCount(progress', p) = SessionCount(progress, p)
            /\ Lookup(progress', normalizeProgressKey(vop'.path)).lastOpenedAt
                  = now
            /\ saves' >= 1
            /\ saveTimer' # 0
            /\ \E t \in timeouts' :
                  t.id = saveTimer' /\ t.due = now + saveMinDelayMs
       ELSE \A p \in ViewPaths :
                SessionCount(progress', p) = SessionCount(progress, p)]_vars

C30_Witness ==
    /\ vop.name = "onLoadFile"
    /\ vop.path = BookA
    /\ SessionCount(progress, BookA) = 2
    /\ Lookup(progress, normalizeProgressKey(BookA)).totalReadTimeMs > 0
    /\ mounted


----------------------------------------------------------------------------
(* Properties of the tracker: ticks, transitions and bounds *)

\* C31: every tick of a live timer leaves lastTickAt at the current time,
\* whether or not it accrues.
C31_TickSetsLastTick ==
    [][op'.name = "tick" => lastTickAt' = now]_vars

\* A tick that finds a file sets lastTickAt to the current time; one that
\* finds none returns at its first line and leaves the whole tracker alone.
C31_TickWithFile ==
    [][op'.name = "tick" =>
        IF filePath # NoPath THEN lastTickAt' = now
        ELSE UNCHANGED trackerFields /\ onFlushCalls' = <<>>]_vars

\* C32: the pending time grows, and time is accrued, only in a tick that finds
\* a file path, an active leaf and an activity at most activityTimeoutMs old;
\* what the tick accrues is no more than the time since the most recent
\* change of isActiveLeaf by setActiveLeaf.
C32_AccrualConditions ==
    [][LET accrued == readTimePendingMs' + SumCalls(onFlushCalls')
                      - readTimePendingMs
       IN (readTimePendingMs' > readTimePendingMs
           \/ (op'.name = "tick" /\ accrued > 0))
          => /\ op'.name = "tick"
             /\ filePath # NoPath
             /\ isActiveLeaf
             /\ lastActivityAt # 0
             /\ now - lastActivityAt <= activityTimeoutMs
             /\ op.leafAt # 0
             /\ accrued <= now - op.leafAt]_vars

C32_Witness ==
    /\ op.name = "tick"
    /\ op.leafAt > Epoch
    /\ op.gap = now - op.leafAt
    /\ readTimePendingMs = op.before + op.gap
    /\ readTimePendingMs > op.before

\* C36: the pending time is always in [0, flushThresholdMs), and every delta
\* handed to onFlush is positive and below flushThresholdMs + maxTickMs.
C36_PendingBounds ==
    /\ readTimePendingMs >= 0
    /\ readTimePendingMs < flushThresholdMs
    /\ \A i \in DOMAIN onFlushCalls :
          /\ onFlushCalls[i][1] > 0
          /\ onFlushCalls[i][1] < flushThresholdMs + maxTickMs

C36_Witness ==
    /\ op.name = "tick"
    /\ op.before > 0
    /\ Len(onFlushCalls) = 1
    /\ onFlushCalls[1][1] > flushThresholdMs
    /\ readTimePendingMs = 0

----------------------------------------------------------------------------
(* Properties of the view: the tracker across a change of book *)

\* C33: after the view has loaded a different book, no tick accrues reading
\* time until recordActivity() is called again.
C33_NoAccrualBeforeActivity ==
    [][(viewOps' # viewOps /\ vop'.name = "tick" /\ ~vop.activitySinceLoad)
        => readTimePendingMs' + SumCalls(onFlushCalls') = readTimePendingMs]_vars

\* Loading a book resets the pending time and the tick stamp and keeps
\* lastActivityAt.
C33_LoadKeepsActivity ==
    [][(viewOps' # viewOps /\ vop'.name = "onLoadFile")
        => /\ readTimePendingMs' = 0
           /\ lastTickAt' = now
           /\ lastActivityAt' = lastActivityAt]_vars

\* C34: every delta handed to onFlush goes to the path the view had while
\* the flushed time was accrued.
C34_FlushToAccrualPath ==
    [][\A i \in DOMAIN onFlushCalls' :
          vop.accruedFor \subseteq {onFlushCalls'[i][2]}]_vars

\* Within a tick the accrued time is flushed to the path the tick has read.
C34_TickFlushesOwnPath ==
    [][(viewOps' # viewOps /\ vop'.name = "tick")
        => \A i \in DOMAIN onFlushCalls' : onFlushCalls'[i][2] = filePath]_vars

----------------------------------------------------------------------------
(* Properties of the resolver: the cache across a re-index *)

\* C35: in the first call after the host has indexed a rewritten note, with
\* every note indexed, each returned highlight is the location of a token
\* the link records of its source note hold now.
C35_CurrentAfterReindex ==
    [][(/\ Resolved
        /\ hop.name = "index"
        /\ \A n \in NoteIds : notes[n].cache = notes[n].file) =>
            \A k \in DOMAIN hop'.ret.items :
            \E n \in CandidateSet(hop') :
            \E t \in TokensOf(hop', n) :
                /\ Decodable(t)
                /\ LocationOf(t) = hop'.ret.items[k].cfiRange
                /\ NotePath(n) = hop'.ret.items[k].sourceFile]_vars

\* A call that computes its list returns highlights of the link records
\* held at the time of the call.
C35_FreshIsCurrent ==
    [][FreshPass =>
            \A k \in DOMAIN hop'.ret.items :
            \E n \in CandidateSet(hop') :
            \E t \in TokensOf(hop', n) :
                /\ Decodable(t)
                /\ LocationOf(t) = hop'.ret.items[k].cfiRange
                /\ NotePath(n) = hop'.ret.items[k].sourceFile]_vars

----------------------------------------------------------------------------
(* Properties of the store: what a rename leaves alone *)

\* C37: a rename whose two paths normalize to the same key, in the file or
\* the folder form, leaves the progress map and the settings as they were.
C37_SelfRenameFrame ==
    [][(/\ sop'.name = "renameProgress"
        /\ normalizeProgressKey(sop'.path) = normalizeProgressKey(sop'.path2))
        => /\ progress' = progress
           /\ settings' = settings]_vars

\* Such a rename removes the entry at the key (file form) or every entry
\* under the folder (folder form), and keeps the others.
C37_SelfRenameRemoves ==
    [][(/\ sop'.name = "renameProgress"
        /\ normalizeProgressKey(sop'.path) = normalizeProgressKey(sop'.path2))
        => /\ settings' = settings
           /\ progress' =
                IF sop'.isFolder
                THEN SelectSeq(progress,
                        LAMBDA e : ~startsWith(e.k, FolderPrefix(sop'.path)))
                ELSE SelectSeq(progress,
                        LAMBDA e : e.k # normalizeProgressKey(sop'.path))]_vars

\* An entry was there before and is there after, with the same fields.
Kept(before, after, k) ==
    /\ HasKey(before, k)
    /\ HasKey(after, k)
    /\ Lookup(after, k) = Lookup(before, k)

\* C38: a rename never changes the settings; the folder form keeps every
\* entry whose key does not start with old + "/" and adds keys only where it
\* sends the entries under old + "/"; the file form keeps every entry but
\* those at the keys old and new and adds no key but new.
C38_RenameFrame ==
    [][sop'.name = "renameProgress" =>
        /\ settings' = settings
        /\ IF sop'.isFolder
           THEN LET oldPrefix == FolderPrefix(sop'.path)
                    newPrefix == FolderPrefix(sop'.path2)
                IN /\ \A k \in KeysOf(progress) :
                        ~startsWith(k, oldPrefix) => Kept(progress, progress', k)
                   /\ \A k \in KeysOf(progress') :
                        \/ Kept(progress, progress', k)
                        \/ k \in DestKeys(progress, oldPrefix, newPrefix)
           ELSE LET oldKey == normalizeProgressKey(sop'.path)
                    newKey == normalizeProgressKey(sop'.path2)
                IN /\ \A k \in KeysOf(progress) :
                        k \notin {oldKey, newKey} => Kept(progress, progress', k)
                   /\ \A k \in KeysOf(progress') :
                        Kept(progress, progress', k) \/ k = newKey]_vars

C38_Witness ==
    /\ sop.name = "renameProgress"
    /\ sop.isFolder
    /\ sop.path = FolderF
    /\ sop.path2 = FolderM
    /\ HasKey(sop.before, FileFA)
    /\ HasKey(sop.before, FileF2A)
    /\ ~HasKey(progress, FileFA)
    /\ HasKey(progress, FileMA)
    /\ Kept(sop.before, progress, FileF2A)

----------------------------------------------------------------------------
(* Properties of the copied link *)

\* The copied link has been parsed.
CopiedAndParsed == codec.kind = "copy" /\ codec.hasTok /\ parse.done

\* The link parses to the normalized path of the book and to a token that
\* decodes to the location c, and the resolver's scan finds that one token.
LinkRoundTrips(c) ==
    /\ parse.out.kind = "result"
    /\ parse.out.path = normalizePath(codec.file)
    /\ base64UrlDecode(parse.out.cfi64).ok
    /\ base64UrlDecode(parse.out.cfi64).value = c
    /\ scanTokens(parse.raw, 1) = <<parse.out.cfi64>>

\* C39: for every book path ending in ".epub" and every location string c,
\* the link path + "#cfi64=" + base64UrlEncode(c) is parsed into the
\* normalized path and a token that decodes to c, and the resolver's scan
\* extracts the same token.
C39_CopiedLinkRoundTrip == CopiedAndParsed => LinkRoundTrips(codec.str)

\* What holds: for a path without "%" the round trip gives the location,
\* without its leading U+FEFF if it has one.
C39_RoundTripOfPlainPath ==
    (/\ CopiedAndParsed
     /\ "%" \notin {codec.file[k] : k \in DOMAIN codec.file})
        => LinkRoundTrips(IF codec.str[1] = ByteOrderMark
                          THEN Tail(codec.str) ELSE codec.str)

====
